---- MODULE Spec2Model ----
(***************************************************************************)
(* A model of obs_sdk.core.client.OBSClient (connection lifecycle, request *)
(* execution with retry, event callbacks), of the scoped-resource protocol *)
(* of OBSClient and OBSManager, and of the input, scene, recording,        *)
(* streaming and virtual-camera managers.                                  *)
(*                                                                         *)
(* Spec         one caller; every action is one whole method call.         *)
(* SpecScope    one caller using the with-statement.                       *)
(* SpecThreads  several threads inside connect()/disconnect(), one step    *)
(*              per statement, interleaved.                                *)
(* SpecEvents   registration, removal and dispatch of event callbacks.     *)
(* SpecInputs   InputManager methods addressed by an input name.           *)
(* SpecInputIds InputManager methods taking a name and a uuid.             *)
(* SpecScenes   SceneManager methods addressed by a scene name.            *)
(* SpecOutputs  start, stop, pause and resume of the three outputs.        *)
(* SpecLifecycle      creation of scenes, sources and inputs, deletion of  *)
(*                    sources.                                             *)
(* SpecSpecialInputs  InputManager.get_special_inputs.                     *)
(* SpecQuickRecord    RecordingManager.quick_record.                       *)
(* SpecDelivery       inbound messages on the session of a connected       *)
(*                    client.                                              *)
(* SpecDispatch       the dispatcher one listener call per step, with      *)
(*                    listeners unregistered while it runs.                *)
(* SpecCallRace       a thread inside call(), one statement per step,      *)
(*                    while others connect and disconnect.                 *)
(* In the specifications of the managers and of the listeners a method     *)
(* call is one action and its return a second one, so that the result of   *)
(* the call is part of the state.                                          *)
(***************************************************************************)
EXTENDS FiniteSets, Integers, Sequences, TLC

VARIABLES
  config,      \* OBSClient.config: [max_retries]
  ws,          \* OBSClient._ws: a session handle, or None
  connected,   \* OBSClient._connected
  nextHandle,  \* identity of the next obsws object to be constructed
  sess,        \* per obsws object: its state and how often it was opened/closed
  last,        \* the last method call: name, arguments, state before it
  res,         \* how the last method call ended: value returned or exception
  ev,          \* what the last method call did on the transport, in order
  scope,       \* the with-statement: which object is the context manager
  lock,        \* OBSClient._connection_lock: the thread holding it
  pc,          \* per thread: position inside connect()/disconnect()
  global_callbacks,  \* OBSClient._global_callbacks: listeners, in order
  event_callbacks,   \* OBSClient._event_callbacks: event type -> listeners
  functions,   \* per obsws object: the triggers the dispatcher is registered for
  evt,         \* the last call of a listener method or of the dispatcher
  remote,      \* the OBS instance: input names, scene names, outputs
  mgr,         \* the last call of a manager method, and how it ended
  default_output_dir  \* RecordingManager._default_output_dir

\* The variables of the listener registries and of the managers.
ext == <<global_callbacks, event_callbacks, functions, evt, remote, mgr,
         default_output_dir>>

vars == <<config, ws, connected, nextHandle, sess, last, res, ev, scope, lock, pc,
          ext>>

----------------------------------------------------------------------------
(* Bounds of the model.                                                    *)

MaxHandles == 2
MaxRetriesArg == 2
MaxConfigRetries == 1
NumThreads == 2
NumListeners == 2
MaxRegistered == 3
MaxFunctions == 2

----------------------------------------------------------------------------
(* Program constants.                                                      *)

DefaultMaxRetries == 3
BaseDelayMs == 500

None == 0
NoThread == 0

Handles == 1..MaxHandles
Threads == 1..NumThreads

----------------------------------------------------------------------------
(* Text.  A message is a sequence of characters.                           *)

UpperCase == <<"A","B","C","D","E","F","G","H","I","J","K","L","M",
               "N","O","P","Q","R","S","T","U","V","W","X","Y","Z">>
LowerCase == <<"a","b","c","d","e","f","g","h","i","j","k","l","m",
               "n","o","p","q","r","s","t","u","v","w","x","y","z">>

LowerChar(c) ==
  IF \E i \in 1..Len(UpperCase) : UpperCase[i] = c
  THEN LowerCase[CHOOSE i \in 1..Len(UpperCase) : UpperCase[i] = c]
  ELSE c

\* str.lower()
Lower(s) == [i \in 1..Len(s) |-> LowerChar(s[i])]

\* needle in s
Contains(s, needle) ==
  \E i \in 0..(Len(s) - Len(needle)) :
    \A j \in 1..Len(needle) : s[i + j] = needle[j]

AuthNeedle ==
  <<"a","u","t","h","e","n","t","i","c","a","t","i","o","n"," ",
    "f","a","i","l","e","d">>

ConnectFailPrefix == <<"connect failed: ">>
RequestFailPrefix == <<"request failed: ">>
NotConnectedMsg == <<"not connected, call connect() first">>
NoneText == <<"N","o","n","e">>

\* What the underlying open may fail with.
ConnectErrors ==
  { <<"a","u","t","h","e","n","t","i","c","a","t","i","o","n"," ",
      "f","a","i","l","e","d">>,
    <<"A","u","t","h","e","n","t","i","c","a","t","i","o","n"," ",
      "F","a","i","l","e","d">>,
    <<"E","r","r",":"," ","A","U","T","H","E","N","T","I","C","A","T","I","O","N"," ",
      "F","A","I","L","E","D","!">>,
    <<"a","u","t","h","e","n","t","i","c","a","t","i","o","n"," "," ",
      "f","a","i","l","e","d">>,
    <<"a","u","t","h"," ","f","a","i","l","e","d">>,
    <<"r","e","f","u","s","e","d">>,
    <<>> }

\* What a transport request may fail with, and what it may answer.
RequestErrors == { <<"t","i","m","e","o","u","t">>, <<"b","u","s","y">> }
Responses == { "resp1", "bare" }

\* One answer of the transport to one attempt: a response, or an exception.
Answer(r) == [ok |-> TRUE, resp |-> r, err |-> <<>>]
Failure(m) == [ok |-> FALSE, resp |-> "", err |-> m]
TransportOutcomes ==
  {Answer(r) : r \in Responses} \cup {Failure(m) : m \in RequestErrors}

\* What the transport does on the 1st, 2nd, ... n-th attempt of one call: it
\* fails the first k attempts, each with any error, answers attempt k + 1 with
\* any response, and fails every attempt made after the answer.
AfterAnswer == Failure(<<"b","u","s","y">>)

Script(n, errs, r) ==
  [i \in 1..n |->
     IF i <= Len(errs) THEN Failure(errs[i])
     ELSE IF i = Len(errs) + 1 THEN Answer(r)
     ELSE AfterAnswer]

Scripts(n) ==
  UNION { { Script(n, errs, r) : errs \in [1..k -> RequestErrors], r \in Responses }
          : k \in 0..n }

----------------------------------------------------------------------------
(* The client object and the outcome of a method call.                     *)

\* The fields of an OBSClient that connect, disconnect and call touch.
Client(w, c, n, s) == [ws |-> w, connected |-> c, nextHandle |-> n, sess |-> s]

Self == Client(ws, connected, nextHandle, sess)

E(t, a) == [t |-> t, a |-> a]

Returns(c, e, v) ==
  [c |-> c, ev |-> e, kind |-> "return", exc |-> "", value |-> v, msg |-> <<>>]

Raises(c, e, x, m) ==
  [c |-> c, ev |-> e, kind |-> "raise", exc |-> x, value |-> "", msg |-> m]

FreshSession == [st |-> "unborn", opens |-> 0, closes |-> 0]

\* obsws(...): a new session object
Construct(c) ==
  [c EXCEPT !.ws = c.nextHandle,
            !.nextHandle = c.nextHandle + 1,
            !.sess[c.nextHandle].st = "new"]

\* obsws.connect() on object h, succeeding or raising
OpenSession(s, h, ok) ==
  [s EXCEPT ![h].st = IF ok THEN "open" ELSE "failed",
            ![h].opens = s[h].opens + 1]

\* obsws.disconnect() on object h, succeeding or raising
CloseSession(s, h) ==
  [s EXCEPT ![h].st = "closed", ![h].closes = s[h].closes + 1]

----------------------------------------------------------------------------
(* OBSClient.connect                                                       *)

ConnectOutcomes == {"ok", "ctor_raises", "open_raises"}

\* the test without .lower()
IsAuthFailureCaseSensitive(e) == Contains(e, AuthNeedle)

\* "authentication failed" in str(e).lower()
IsAuthFailure(e) == Contains(Lower(e), AuthNeedle)

ConnectFailure(e) ==
  IF IsAuthFailure(e) THEN "OBSAuthenticationError" ELSE "OBSConnectionError"

\* connect without its fast path
NeverAlreadyConnected(c) == FALSE

\* if self._connected: return True
AlreadyConnected(c) == c.connected

Connect(c, outcome, e) ==
  IF AlreadyConnected(c) THEN Returns(c, <<>>, "True")
  ELSE IF outcome = "ctor_raises"
  THEN Raises([c EXCEPT !.connected = FALSE], <<>>,
              ConnectFailure(e), ConnectFailPrefix \o e)
  ELSE LET c1 == Construct(c)
           h  == c1.ws
       IN IF outcome = "open_raises"
          THEN Raises([c1 EXCEPT !.sess = OpenSession(c1.sess, h, FALSE),
                                 !.connected = FALSE],
                      <<E("open", h)>>,
                      ConnectFailure(e), ConnectFailPrefix \o e)
          ELSE Returns([c1 EXCEPT !.sess = OpenSession(c1.sess, h, TRUE),
                                  !.connected = TRUE],
                       <<E("open", h)>>, "True")

----------------------------------------------------------------------------
(* OBSClient.disconnect                                                    *)

NothingToClose(c) == ~c.connected \/ c.ws = None

Disconnected(c) == [c EXCEPT !.connected = FALSE, !.ws = None]

\* closeOk: whether obsws.disconnect() returns or raises; the except branch
\* resets the same two fields and swallows the exception.
Disconnect(c, closeOk) ==
  IF NothingToClose(c) THEN Returns(c, <<>>, "None")
  ELSE LET c1 == [c EXCEPT !.sess = CloseSession(c.sess, c.ws)]
       IN IF closeOk
          THEN Returns(Disconnected(c1), <<E("close", c.ws)>>, "None")
          ELSE Returns(Disconnected(c1),
                       <<E("close", c.ws), E("log_error", c.ws)>>, "None")

----------------------------------------------------------------------------
(* OBSClient.is_connected                                                  *)

IsConnected(c) == c.connected /\ c.ws # None

----------------------------------------------------------------------------
(* OBSClient.call                                                          *)

RECURSIVE Pow2(_)
Pow2(n) == IF n <= 0 THEN 1 ELSE 2 * Pow2(n - 1)

\* a constant delay instead of an exponential one
BackoffConstant(attempt) == BaseDelayMs

\* time.sleep(0.5 * (2 ** attempt)), in milliseconds
Backoff(attempt) == BaseDelayMs * Pow2(attempt)

\* the code after the loop
RetriesExhausted(c, e, lastExc) ==
  Raises(c, e, "OBSRequestError", RequestFailPrefix \o lastExc)

\* sleeping after the last attempt as well
RetryAfterEveryFailure(attempt, max_retries) == attempt <= max_retries

\* if attempt < max_retries: sleep and go on, else: break
RetryAfter(attempt, max_retries) == attempt < max_retries

\* for attempt in range(max_retries + 1), from `attempt` on
RECURSIVE CallLoop(_, _, _, _, _, _)
CallLoop(c, max_retries, script, attempt, e, lastExc) ==
  IF attempt >= max_retries + 1
  THEN RetriesExhausted(c, e, lastExc)
  ELSE LET o  == script[attempt + 1]
           e1 == Append(e, E("attempt", attempt))
       IN IF o.ok
          THEN Returns(c, e1, o.resp)
          ELSE IF RetryAfter(attempt, max_retries)
               THEN CallLoop(c, max_retries, script, attempt + 1,
                             Append(e1, E("sleep", Backoff(attempt))), o.err)
               ELSE RetriesExhausted(c, e1, o.err)

\* call without its connected check
CallUnchecked(c, max_retries, script) ==
  CallLoop(c, max_retries, script, 0, <<>>, NoneText)

Call(c, max_retries, script) ==
  IF ~IsConnected(c)
  THEN Raises(c, <<>>, "OBSConnectionError", NotConnectedMsg)
  ELSE CallLoop(c, max_retries, script, 0, <<>>, NoneText)

----------------------------------------------------------------------------
(* OBSClient.get_version, OBSClient.get_stats                              *)

HelperRequests == {"GetVersion", "GetStats"}

HasDatain(r) == r # "bare"
Datain(r) == IF r = "resp1" THEN "datain1" ELSE "{}"

\* The retry bound the helpers and the managers pass to call: none, so the
\* default of the max_retries parameter.
HelperMaxRetries(cfg) == DefaultMaxRetries

Helper(c, cfg, script) ==
  LET r == Call(c, HelperMaxRetries(cfg), script)
  IN IF r.kind = "raise" THEN r
     ELSE Returns(r.c, r.ev, IF HasDatain(r.value) THEN Datain(r.value) ELSE "{}")

----------------------------------------------------------------------------
(* The with-statement over OBSClient and OBSManager.                       *)

ScopeKinds == {"OBSClient", "OBSManager"}
BodyOutcomes == {"", "BodyError"}

\* OBSClient.__enter__
ClientEnter(c, outcome, e) ==
  LET r == Connect(c, outcome, e)
  IN IF r.kind = "raise" THEN r ELSE Returns(r.c, r.ev, "self")

\* OBSManager.__enter__
ManagerEnter(c, outcome, e) ==
  IF ~IsConnected(c)
  THEN LET r == Connect(c, outcome, e)
       IN IF r.kind = "raise" THEN r ELSE Returns(r.c, r.ev, "self")
  ELSE Returns(c, <<>>, "self")

\* OBSClient.__exit__ without the disconnect on an exception
ClientExitOnSuccessOnly(c, exc, closeOk) ==
  IF exc # "" THEN Returns(c, <<>>, "None")
  ELSE LET r == Disconnect(c, closeOk)
       IN Returns(r.c, <<E("disconnect", 0)>> \o r.ev, "None")

\* OBSClient.__exit__(exc_type, exc_val, exc_tb)
ClientExit(c, exc, closeOk) ==
  LET r == Disconnect(c, closeOk)
  IN Returns(r.c, <<E("disconnect", 0)>> \o r.ev, "None")

\* OBSManager.__exit__(*args)
ManagerExit(c, exc, closeOk) ==
  LET r == Disconnect(c, closeOk)
  IN Returns(r.c, <<E("disconnect", 0)>> \o r.ev, "None")

Enter(kind, c, outcome, e) ==
  IF kind = "OBSClient" THEN ClientEnter(c, outcome, e)
  ELSE ManagerEnter(c, outcome, e)

Exit(kind, c, exc, closeOk) ==
  IF kind = "OBSClient" THEN ClientExit(c, exc, closeOk)
  ELSE ManagerExit(c, exc, closeOk)

\* bool(v) of a value __exit__ may return
Truthy(v) == v \notin {"None", "False", ""}

\* The exception that leaves the with-statement: the body's, unless __exit__
\* returned a true value.
Propagated(bodyExc, exitValue) ==
  IF bodyExc # "" /\ ~Truthy(exitValue) THEN bodyExc ELSE ""

----------------------------------------------------------------------------
(* OBSClient.register_event_callback, unregister_event_callback and         *)
(* _event_dispatcher.                                                       *)

Listeners == 1..NumListeners

\* event_type=None: the listener is registered for every event
NoType == "None"

\* Names of event classes.  getattr(events, name, None) finds only the known.
EventTypes == {"A", "B"}
KnownEventTypes == {"A"}

\* The trigger of a handler registered for every event on an obsws object.
AnyEvent == "*"

\* a dict with no key
EmptyDict == [k \in {} |-> <<>>]

\* d[k] = v
DictSet(d, k, v) ==
  [x \in (DOMAIN d) \cup {k} |-> IF x = k THEN v ELSE d[x]]

\* del d[k]
DictDel(d, k) == [x \in (DOMAIN d) \ {k} |-> d[x]]

\* x in list
InList(list, x) == \E i \in 1..Len(list) : list[i] = x

\* list.remove(x) where x is in list: the first occurrence goes
ListRemove(list, x) ==
  LET i == CHOOSE j \in 1..Len(list) :
             list[j] = x /\ \A k \in 1..(j - 1) : list[k] # x
  IN  SubSeq(list, 1, i - 1) \o SubSeq(list, i + 1, Len(list))

\* The registries of a client.
Registry(g, e, f) == [global |-> g, event |-> e, functions |-> f]
Reg == Registry(global_callbacks, event_callbacks, functions)

\* self._ws.register(self._event_dispatcher, trigger), succeeding or raising
WsRegister(f, h, trigger, ok) ==
  IF ok THEN [f EXCEPT ![h] = Append(f[h], trigger)] ELSE f

\* The trigger register_event_callback asks the transport for, "" for none.
Trigger(event_type) ==
  IF event_type # NoType /\ event_type # ""
  THEN IF event_type \in KnownEventTypes THEN event_type ELSE ""
  ELSE AnyEvent

\* register_event_callback(callback, event_type)
RegisterEventCallback(r, w, callback, event_type, registerOk) ==
  LET g == IF event_type = NoType THEN Append(r.global, callback)
           ELSE r.global
      e0 == IF event_type # NoType /\ event_type \notin DOMAIN r.event
            THEN DictSet(r.event, event_type, <<>>)
            ELSE r.event
      e == IF event_type = NoType THEN e0
           ELSE DictSet(e0, event_type, Append(e0[event_type], callback))
      f == IF w # None /\ Trigger(event_type) # ""
           THEN WsRegister(r.functions, w, Trigger(event_type), registerOk)
           ELSE r.functions
  IN  [reg |-> Registry(g, e, f), kind |-> "return",
       warned |-> w # None /\ Trigger(event_type) # "" /\ ~registerOk]

\* the list is kept when its last listener goes
KeepEmptyList(list) == FALSE

\* if not self._event_callbacks[event_type]
PruneEmptyList(list) == list = <<>>

\* the ValueError of list.remove leaves the method
ValueErrorPropagates == "raise"

\* except ValueError: a warning is logged and the method returns
ValueErrorCaught == "return"

\* unregister_event_callback(callback, event_type)
UnregisterEventCallback(r, callback, event_type) ==
  IF event_type = NoType
  THEN IF InList(r.global, callback)
       THEN [reg |-> [r EXCEPT !.global = ListRemove(r.global, callback)],
             kind |-> "return", warned |-> FALSE]
       ELSE [reg |-> r, kind |-> ValueErrorCaught, warned |-> TRUE]
  ELSE IF event_type \in DOMAIN r.event
       THEN IF InList(r.event[event_type], callback)
            THEN LET l == ListRemove(r.event[event_type], callback)
                 IN  [reg |-> [r EXCEPT !.event =
                                 IF PruneEmptyList(l)
                                 THEN DictDel(r.event, event_type)
                                 ELSE DictSet(r.event, event_type, l)],
                      kind |-> "return", warned |-> FALSE]
            ELSE [reg |-> r, kind |-> ValueErrorCaught, warned |-> TRUE]
       ELSE [reg |-> r, kind |-> "return", warned |-> FALSE]

\* One call of a listener: it returns or it raises.
Invocation(callback, raised) == [cb |-> callback, raised |-> raised]

\* the loop ends at the first listener that raises
RECURSIVE StopAtFailure(_, _, _, _)
StopAtFailure(list, i, raisers, acc) ==
  IF i > Len(list) THEN acc
  ELSE IF list[i] \in raisers
       THEN Append(acc, Invocation(list[i], TRUE))
       ELSE StopAtFailure(list, i + 1, raisers,
                          Append(acc, Invocation(list[i], FALSE)))

\* for callback in list: try: callback(message) except Exception: log
RECURSIVE InvokeAll(_, _, _, _)
InvokeAll(list, i, raisers, acc) ==
  IF i > Len(list) THEN acc
  ELSE InvokeAll(list, i + 1, raisers,
                 Append(acc, Invocation(list[i], list[i] \in raisers)))

\* _event_dispatcher(message) for a message of class event_type, where the
\* listeners in raisers raise: the calls made, in order
EventDispatcher(r, event_type, raisers) ==
  LET g == InvokeAll(r.global, 1, raisers, <<>>)
  IN  [invoked |-> IF event_type \in DOMAIN r.event
                   THEN InvokeAll(r.event[event_type], 1, raisers, g)
                   ELSE g,
       kind |-> "return"]

\* The list a loop of the dispatcher iterates: the global list, or the list
\* object found under the event type, which is empty once its last listener
\* was removed.
Iterated(r, phase, event_type) ==
  IF phase = "global" THEN r.global
  ELSE IF event_type \in DOMAIN r.event THEN r.event[event_type] ELSE <<>>

\* The list iterator has an element left: its index is inside the list as
\* the list is now.
HasNext(list, i) == i < Len(list)

\* the iterator's next(): the element at the index, and the index moves on
IterNext(list, i) == [callback |-> list[i + 1], i |-> i + 1]

\* The loop of the global listeners is over: the dispatcher goes on to the
\* listeners of the event type if the type has a list now.
AfterGlobal(r, event_type) ==
  IF event_type \in DOMAIN r.event THEN "event" ELSE "done"

\* An entry registered under trigger is called for a message of class
\* event_type.
Matches(trigger, event_type) == trigger = AnyEvent \/ trigger = event_type

\* The entries of session h that are called for a message of class
\* event_type.  Every call of self._ws.register has left one entry, and
\* every entry is the dispatcher.
Entries(f, h, event_type) ==
  Cardinality({i \in 1..Len(f[h]) : Matches(f[h][i], event_type)})

RECURSIVE Repeated(_, _)
Repeated(list, n) == IF n = 0 THEN <<>> ELSE list \o Repeated(list, n - 1)

\* One inbound message of class event_type on session w: the transport calls
\* every matching entry once, and each call is a run of the dispatcher.
Inbound(r, w, event_type, raisers) ==
  LET runs == IF w = None THEN 0 ELSE Entries(r.functions, w, event_type)
  IN  [runs |-> runs,
       invoked |-> Repeated(EventDispatcher(r, event_type, raisers).invoked,
                            runs),
       kind |-> "return"]

----------------------------------------------------------------------------
(* The OBS instance behind the transport, and the requests of one manager   *)
(* method call.                                                             *)

\* A name is a sequence of characters.  None is no name.
NoName == <<"None">>

\* transition_duration=None
NoDuration == -1

\* output_directory=None, filename=None, _default_output_dir = None
NoDir == "None"
Blank == <<" ">>
Names == {<<"A">>, <<"B">>}
NameLists == {<<>>, <<<<"A">>>>, <<<<"B">>>>, <<<<"A">>, <<"B">>>>}

\* str.strip()
RECURSIVE LStrip(_)
LStrip(s) == IF s # <<>> /\ Head(s) = " " THEN LStrip(Tail(s)) ELSE s

RECURSIVE RStrip(_)
RStrip(s) ==
  IF s # <<>> /\ s[Len(s)] = " " THEN RStrip(SubSeq(s, 1, Len(s) - 1)) ELSE s

Strip(s) == RStrip(LStrip(s))

\* not s
Falsy(s) == s = NoName \/ s = <<>>

\* The OBS instance: the names of its inputs and scenes, and its outputs.
RemoteInit ==
  [inputs |-> <<>>, scenes |-> <<>>, record |-> FALSE, paused |-> FALSE,
   stream |-> FALSE, vcam |-> FALSE]

\* A request: its type, the name it addresses, a second name, a uuid.
Rq(rq, a, b, u) == [rq |-> rq, a |-> a, b |-> b, u |-> u]

Without(list, x) == SelectSeq(list, LAMBDA y : y # x)
Renamed(list, x, y) == [i \in 1..Len(list) |-> IF list[i] = x THEN y ELSE list[i]]

\* What an answered request has done to the OBS instance.
Effect(r, q) ==
  CASE q.rq = "CreateInput" /\ ~InList(r.inputs, q.a) ->
         [r EXCEPT !.inputs = Append(@, q.a)]
    [] q.rq = "RemoveInput" -> [r EXCEPT !.inputs = Without(@, q.a)]
    [] q.rq = "SetInputName" /\ ~InList(r.inputs, q.b) ->
         [r EXCEPT !.inputs = Renamed(@, q.a, q.b)]
    [] q.rq = "CreateScene" /\ ~InList(r.scenes, q.a) ->
         [r EXCEPT !.scenes = Append(@, q.a)]
    [] q.rq = "RemoveScene" -> [r EXCEPT !.scenes = Without(@, q.a)]
    [] q.rq = "SetSceneName" /\ ~InList(r.scenes, q.b) ->
         [r EXCEPT !.scenes = Renamed(@, q.a, q.b)]
    [] q.rq = "StartRecord" -> [r EXCEPT !.record = TRUE]
    [] q.rq = "StopRecord" -> [r EXCEPT !.record = FALSE, !.paused = FALSE]
    [] q.rq = "PauseRecord" /\ r.record -> [r EXCEPT !.paused = TRUE]
    [] q.rq = "ResumeRecord" -> [r EXCEPT !.paused = FALSE]
    [] q.rq = "StartStream" -> [r EXCEPT !.stream = TRUE]
    [] q.rq = "StopStream" -> [r EXCEPT !.stream = FALSE]
    [] q.rq = "StartVirtualCam" -> [r EXCEPT !.vcam = TRUE]
    [] q.rq = "StopVirtualCam" -> [r EXCEPT !.vcam = FALSE]
    [] OTHER -> r

\* What the transport does with one request: it answers, answers with a
\* response that has no datain, or fails every attempt; a request that names
\* an input may fail because OBS does not know the input.
Fates == {"ok", "bare", "fail"}
NamedFates == Fates \cup {"notfound"}

FailureText(fate) ==
  IF fate = "notfound"
  THEN <<"I","n","p","u","t"," ","n","o","t"," ","f","o","u","n","d">>
  ELSE <<"b","u","s","y">>

FateScript(fate) ==
  LET n == DefaultMaxRetries + 1
  IN  IF fate = "ok" THEN Script(n, <<>>, "resp1")
      ELSE IF fate = "bare" THEN Script(n, <<>>, "bare")
      ELSE Script(n, [i \in 1..n |-> FailureText(fate)], "resp1")

\* How self.client.call(request) ends on client c, for each fate of the
\* request.
CallTable(c) ==
  [f \in NamedFates |-> Call(c, HelperMaxRetries(config), FateScript(f))]

\* A manager method call under way: how a call on its client ends, the fate
\* of its 1st, 2nd, ... request, the requests dispatched so far, the OBS
\* instance now and as it is after the first request, and how the last
\* request ended.
Start(calls, r, later, tape) ==
  [calls |-> calls, tape |-> tape, n |-> 0, log |-> <<>>, remote |-> r,
   later |-> later, ok |-> TRUE, bare |-> FALSE, exc |-> "", msg |-> <<>>,
   seen |-> r, names |-> <<>>]

\* self.client.call(request)
Request(x, q) ==
  LET r    == x.calls[x.tape[x.n + 1]]
      done == r.kind = "return"
      base == IF x.n = 0 THEN x.later ELSE x.remote
  IN  [x EXCEPT !.n = x.n + 1,
                !.log = IF r.ev # <<>> THEN Append(x.log, q) ELSE x.log,
                !.remote = IF done THEN Effect(base, q) ELSE base,
                !.ok = done,
                !.bare = done /\ ~HasDatain(r.value),
                !.exc = r.exc,
                !.msg = r.msg,
                !.seen = x.remote]

\* How a manager method ends.
Ended(x, kind, exc, value, resource, available) ==
  [x |-> x, kind |-> kind, exc |-> exc, value |-> value,
   resource |-> resource, available |-> available, caught |-> FALSE]

MReturns(x, value) == Ended(x, "return", "", value, NoName, <<>>)
MRaises(x, exc) == Ended(x, "raise", exc, "", NoName, <<>>)

\* except Exception: log and return a value
Caught(x, value) == [MReturns(x, value) EXCEPT !.caught = TRUE]

\* raise OBSResourceNotFoundError(type, name, available)
NotFound(x, name, available) ==
  Ended(x, "raise", "OBSResourceNotFoundError", "", name, available)

\* the test for a name that is taken is absent
NeverThere(names, name) == FALSE

\* if self.exists(name), with the names exists() fetched
AlreadyThere(names, name) == InList(names, name)

----------------------------------------------------------------------------
(* InputManager                                                             *)

\* get_names(): the names of get_all(), which is [] without datain
InputGetNames(x) ==
  LET x1 == Request(x, Rq("GetInputList", NoName, NoName, NoName))
  IN  [x1 EXCEPT !.names = IF x1.ok /\ ~x1.bare THEN x1.seen.inputs ELSE <<>>]

\* The shape of is_muted, mute, unmute, get_settings and set_settings:
\*   try:
\*       if not self.exists(name):
\*           raise OBSResourceNotFoundError(type, name, self.get_names())
\*       response = self.client.call(q); return value
\*   except OBSResourceNotFoundError: raise
\*   except Exception: return errorValue
InputMethod(x, name, q, value, bareValue, errorValue) ==
  LET x1 == InputGetNames(x)
  IN  IF ~x1.ok THEN Caught(x1, errorValue)
      ELSE IF ~InList(x1.names, name)
           THEN LET x2 == InputGetNames(x1)
                IN  IF ~x2.ok THEN Caught(x2, errorValue)
                    ELSE NotFound(x2, name, x2.names)
           ELSE LET x3 == Request(x1, q)
                IN  IF ~x3.ok THEN Caught(x3, errorValue)
                    ELSE MReturns(x3, IF x3.bare THEN bareValue ELSE value)

IsMuted(x, name) ==
  InputMethod(x, name, Rq("GetInputMute", name, NoName, NoName),
              "inputMuted", "False", "False")

Mute(x, name) ==
  InputMethod(x, name, Rq("SetInputMute", name, <<"True">>, NoName),
              "True", "True", "False")

Unmute(x, name) ==
  InputMethod(x, name, Rq("SetInputMute", name, <<"False">>, NoName),
              "True", "True", "False")

\* the try block of toggle_mute
ToggleRequest(x, name) ==
  InputMethod(x, name, Rq("ToggleInputMute", name, NoName, NoName),
              "inputMuted", "False", "")

\* toggle_mute: as the others, but except Exception returns is_muted(name)
ToggleMute(x, name) ==
  LET o == ToggleRequest(x, name)
  IN  IF o.caught THEN IsMuted(o.x, name) ELSE o

InputGetSettings(x, name) ==
  InputMethod(x, name, Rq("GetInputSettings", name, NoName, NoName),
              "inputSettings", "{}", "{}")

InputSetSettings(x, name) ==
  InputMethod(x, name, Rq("SetInputSettings", name, NoName, NoName),
              "True", "True", "False")

\* The keys of the mapping get_special_inputs returns.
SpecialKeys == {"desktop1", "desktop2", "mic1", "mic2", "mic3", "mic4"}

\* A payload (datain) and a mapping are sets of <<key, value>>, one value
\* for a key.
\* datain.get(key): None when the key is missing
DatainGet(datain, key) ==
  IF \E p \in datain : p[1] = key
  THEN (CHOOSE p \in datain : p[1] = key)[2]
  ELSE NoName

\* the value is passed on as it is
AsItIs(v) == v

\* v or ''
OrEmpty(v) == IF Falsy(v) THEN <<>> ELSE v

\* the dict literal of get_special_inputs
SpecialInputs(datain) ==
  {<<key, OrEmpty(DatainGet(datain, key))>> : key \in SpecialKeys}

\* get_special_inputs() when the response carries datain: how it ends and
\* the mapping it returns
GetSpecialInputs(x, datain) ==
  LET x1 == Request(x, Rq("GetSpecialInputs", NoName, NoName, NoName))
  IN  IF ~x1.ok THEN [o |-> Caught(x1, "{}"), mapping |-> {}]
      ELSE IF x1.bare THEN [o |-> MReturns(x1, "{}"), mapping |-> {}]
      ELSE [o |-> MReturns(x1, "dict"), mapping |-> SpecialInputs(datain)]

\* the test of the two identifiers is absent
NeverBothOrNeither(a, b) == FALSE

\* (a is None) == (b is None)
BothOrNeither(a, b) == (a = NoName) = (b = NoName)

InputNeedle == <<"i","n","p","u","t">>
SceneNeedle == <<"s","c","e","n","e">>
NotFoundNeedle == <<"n","o","t"," ","f","o","u","n","d">>
\* the needle of three CJK characters, by code point
NotFoundNeedleZh == <<"U+4E0D","U+5B58","U+5728">>
ExistsNeedle == <<"e","x","i","s","t","s">>
ExistsNeedleZh == <<"U+5DF2","U+5B58","U+5728">>

\* str(e) of the exception a failed call raised
ErrorText(x) == Lower(x.msg)

\* except Exception of remove_input and rename_input.  The typed error is
\* constructed with one argument, which its __init__ rejects.
InputRequestFailed(x) ==
  IF /\ Contains(ErrorText(x), InputNeedle)
     /\ \/ Contains(ErrorText(x), NotFoundNeedle)
        \/ Contains(ErrorText(x), NotFoundNeedleZh)
  THEN MRaises(x, "TypeError")
  ELSE MRaises(x, x.exc)

\* except Exception of create_input
CreateInputFailed(x) ==
  IF /\ Contains(ErrorText(x), SceneNeedle)
     /\ \/ Contains(ErrorText(x), NotFoundNeedle)
        \/ Contains(ErrorText(x), NotFoundNeedleZh)
  THEN MRaises(x, "TypeError")
  ELSE IF /\ Contains(ErrorText(x), InputNeedle)
          /\ \/ Contains(ErrorText(x), ExistsNeedle)
             \/ Contains(ErrorText(x), ExistsNeedleZh)
       THEN MRaises(x, "ValueError")
       ELSE MRaises(x, x.exc)

\* get_input_kinds(): [] when the call fails
GetInputKinds(x) ==
  Request(x, Rq("GetInputKindList", NoName, NoName, NoName))

\* create_input(input_name, input_kind, scene_name, scene_uuid,
\*              check_duplicates)
CreateInput(x, input_name, input_kind, scene_name, scene_uuid, check_duplicates) ==
  IF Falsy(input_name) \/ Falsy(Strip(input_name)) THEN MRaises(x, "ValueError")
  ELSE IF Falsy(input_kind) \/ Falsy(Strip(input_kind))
  THEN MRaises(x, "ValueError")
  ELSE IF BothOrNeither(scene_name, scene_uuid) THEN MRaises(x, "ValueError")
  ELSE
    LET x1 == IF check_duplicates THEN InputGetNames(x) ELSE x
    IN  IF ~x1.ok THEN CreateInputFailed(x1)
        ELSE IF check_duplicates /\ AlreadyThere(x1.names, input_name)
        THEN MRaises(x1, "ValueError")
        ELSE
          LET x2 == GetInputKinds(x1)
              x3 == Request(x2, Rq("CreateInput", Strip(input_name),
                                   IF scene_name # NoName
                                   THEN Strip(scene_name) ELSE NoName,
                                   IF scene_uuid # NoName
                                   THEN Strip(scene_uuid) ELSE NoName))
          IN  IF ~x3.ok THEN CreateInputFailed(x3)
              ELSE MReturns(x3, IF x3.bare THEN "success: False"
                                ELSE "success: True")

\* remove_input(input_name, input_uuid)
RemoveInput(x, input_name, input_uuid) ==
  IF BothOrNeither(input_name, input_uuid) THEN MRaises(x, "ValueError")
  ELSE
    LET x1 == Request(x, Rq("RemoveInput",
                            IF input_name # NoName
                            THEN Strip(input_name) ELSE NoName,
                            NoName,
                            IF input_uuid # NoName
                            THEN Strip(input_uuid) ELSE NoName))
    IN  IF ~x1.ok THEN InputRequestFailed(x1) ELSE MReturns(x1, "True")

\* rename_input(new_input_name, input_name, input_uuid)
RenameInput(x, new_input_name, input_name, input_uuid) ==
  IF Falsy(new_input_name) \/ Falsy(Strip(new_input_name))
  THEN MRaises(x, "ValueError")
  ELSE IF BothOrNeither(input_name, input_uuid) THEN MRaises(x, "ValueError")
  ELSE
    LET x1 == InputGetNames(x)
    IN  IF ~x1.ok THEN InputRequestFailed(x1)
        ELSE IF InList(x1.names, Strip(new_input_name))
        THEN MRaises(x1, "ValueError")
        ELSE
          LET x2 == Request(x1, Rq("SetInputName",
                                   IF input_name # NoName
                                   THEN Strip(input_name) ELSE NoName,
                                   Strip(new_input_name),
                                   IF input_uuid # NoName
                                   THEN Strip(input_uuid) ELSE NoName))
          IN  IF ~x2.ok THEN InputRequestFailed(x2) ELSE MReturns(x2, "True")

----------------------------------------------------------------------------
(* SceneManager                                                             *)

MinDuration == 50
MaxDuration == 20000

\* get_names(): the names of get_all(), which is [] without datain
SceneGetNames(x) ==
  LET x1 == Request(x, Rq("GetSceneList", NoName, NoName, NoName))
  IN  [x1 EXCEPT !.names = IF x1.ok /\ ~x1.bare THEN x1.seen.scenes ELSE <<>>]

\* the test of the name against the list is absent
NameNeverMissing(names, name) == FALSE

\* if scene_name not in available_scenes
NameMissing(names, name) == ~InList(names, name)

\* The shape of switch_to, set_preview, delete and
\* get_scene_transition_override:
\*   try:
\*       available_scenes = self.get_names()
\*       if scene_name not in available_scenes:
\*           raise OBSResourceNotFoundError(type, scene_name, available_scenes)
\*       response = self.client.call(q); return value
\*   except OBSResourceNotFoundError: raise
\*   except Exception: return errorValue
SceneMethod(x, scene_name, q, value, bareValue, errorValue) ==
  LET x1 == SceneGetNames(x)
  IN  IF ~x1.ok THEN Caught(x1, errorValue)
      ELSE IF NameMissing(x1.names, scene_name)
           THEN NotFound(x1, scene_name, x1.names)
           ELSE LET x2 == Request(x1, q)
                IN  IF ~x2.ok THEN Caught(x2, errorValue)
                    ELSE MReturns(x2, IF x2.bare THEN bareValue ELSE value)

SwitchTo(x, scene_name) ==
  SceneMethod(x, scene_name,
              Rq("SetCurrentProgramScene", scene_name, NoName, NoName),
              "True", "True", "False")

SetPreview(x, scene_name) ==
  SceneMethod(x, scene_name,
              Rq("SetCurrentPreviewScene", scene_name, NoName, NoName),
              "True", "True", "False")

Delete(x, scene_name) ==
  SceneMethod(x, scene_name, Rq("RemoveScene", scene_name, NoName, NoName),
              "True", "True", "False")

\* rename(scene_name, new_scene_name)
Rename(x, scene_name, new_scene_name) ==
  LET x1 == SceneGetNames(x)
  IN  IF ~x1.ok THEN Caught(x1, "False")
      ELSE IF NameMissing(x1.names, scene_name)
           THEN NotFound(x1, scene_name, x1.names)
           ELSE IF InList(x1.names, new_scene_name)
                THEN MReturns(x1, "False")
                ELSE LET x2 == Request(x1, Rq("SetSceneName", scene_name,
                                              new_scene_name, NoName))
                     IN  IF ~x2.ok THEN Caught(x2, "False")
                         ELSE MReturns(x2, "True")

GetSceneTransitionOverride(x, scene_name) ==
  SceneMethod(x, scene_name,
              Rq("GetSceneSceneTransitionOverride", scene_name, NoName, NoName),
              "override", "{}", "{}")

\* transition_duration is not None and
\* (transition_duration < 50 or transition_duration > 20000)
DurationInvalid(d) == d # NoDuration /\ (d < MinDuration \/ d > MaxDuration)

\* set_scene_transition_override(scene_name, transition_name,
\*                               transition_duration)
SetSceneTransitionOverride(x, scene_name, transition_duration) ==
  LET x1 == SceneGetNames(x)
  IN  IF ~x1.ok THEN Caught(x1, "False")
      ELSE IF NameMissing(x1.names, scene_name)
           THEN NotFound(x1, scene_name, x1.names)
           ELSE IF DurationInvalid(transition_duration)
                THEN MRaises(x1, "ValueError")
                ELSE LET x2 == Request(x1,
                                 Rq("SetSceneSceneTransitionOverride",
                                    scene_name, NoName, NoName))
                     IN  IF ~x2.ok THEN Caught(x2, "False")
                         ELSE MReturns(x2, "True")

\* create(scene_name)
SceneCreate(x, scene_name) ==
  LET x1 == SceneGetNames(x)
  IN  IF ~x1.ok THEN Caught(x1, "False")
      ELSE IF AlreadyThere(x1.names, scene_name) THEN MReturns(x1, "False")
      ELSE LET x2 == Request(x1, Rq("CreateScene", scene_name, NoName, NoName))
           IN  IF ~x2.ok THEN Caught(x2, "False") ELSE MReturns(x2, "True")

----------------------------------------------------------------------------
(* SourceManager                                                            *)

\* get_names(): the names of get_all(), which is [] without datain and when
\* the call fails
SourceGetNames(x) ==
  LET x1 == Request(x, Rq("GetInputList", NoName, NoName, NoName))
  IN  [x1 EXCEPT !.names = IF x1.ok /\ ~x1.bare THEN x1.seen.inputs ELSE <<>>]

\* create_source(source_name, source_type, settings)
CreateSource(x, source_name) ==
  LET x1 == SourceGetNames(x)
  IN  IF AlreadyThere(x1.names, source_name) THEN MReturns(x1, "False")
      ELSE LET x2 == Request(x1, Rq("CreateInput", source_name, NoName, NoName))
           IN  IF ~x2.ok THEN Caught(x2, "False") ELSE MReturns(x2, "True")

\* delete_source(source_name)
DeleteSource(x, source_name) ==
  LET x1 == SourceGetNames(x)
  IN  IF ~InList(x1.names, source_name)
      THEN LET x2 == SourceGetNames(x1)
           IN  NotFound(x2, source_name, x2.names)
      ELSE LET x3 == Request(x1, Rq("RemoveInput", source_name, NoName, NoName))
           IN  IF ~x3.ok THEN Caught(x3, "False") ELSE MReturns(x3, "True")

----------------------------------------------------------------------------
(* RecordingManager, StreamingManager, VirtualCameraManager                 *)

OutputRq(rq) == Rq(rq, NoName, NoName, NoName)

\* the status never says that the output is active
OutputNeverActive(x1, field) == FALSE

\* is_recording(), is_streaming(), is_active() after the status request x1
\* was answered: status.get('outputActive', False), the status being {}
\* without datain
OutputActive(x1, field) == ~x1.bare /\ x1.seen[field]

\* The shape of start() of StreamingManager and VirtualCameraManager.
OutputStart(x, statusRq, field, startRq) ==
  LET x1 == Request(x, OutputRq(statusRq))
  IN  IF ~x1.ok THEN Caught(x1, "False")
      ELSE IF OutputActive(x1, field)
           THEN MRaises(x1, "OBSOutputRunningError")
           ELSE LET x2 == Request(x1, OutputRq(startRq))
                IN  IF ~x2.ok THEN Caught(x2, "False")
                    ELSE MReturns(x2, "True")

\* The shape of stop() of StreamingManager and VirtualCameraManager.
OutputStop(x, statusRq, field, stopRq) ==
  LET x1 == Request(x, OutputRq(statusRq))
  IN  IF ~x1.ok THEN Caught(x1, "False")
      ELSE IF ~OutputActive(x1, field)
           THEN MRaises(x1, "OBSOutputNotRunningError")
           ELSE LET x2 == Request(x1, OutputRq(stopRq))
                IN  IF ~x2.ok THEN Caught(x2, "False")
                    ELSE MReturns(x2, "True")

StreamingStart(x) == OutputStart(x, "GetStreamStatus", "stream", "StartStream")
StreamingStop(x) == OutputStop(x, "GetStreamStatus", "stream", "StopStream")

VirtualCameraStart(x) ==
  OutputStart(x, "GetVirtualCamStatus", "vcam", "StartVirtualCam")

VirtualCameraStop(x) ==
  OutputStop(x, "GetVirtualCamStatus", "vcam", "StopVirtualCam")

\* os.path.join(os.getcwd(), "download")
DownloadDir == "download"

\* if output_directory / if filename
Given(s) == s # NoDir /\ s # ""

\* The second try block of set_output_directory, and what follows it.
SimpleOutputSettings(x, directory) ==
  LET x1 == Request(x, Rq("GetOutputSettings", <<"simple_file_output">>,
                          NoName, NoName))
  IN  IF x1.ok /\ ~x1.bare
      THEN LET x2 == Request(x1, Rq("SetOutputSettings",
                                    <<"simple_file_output">>, NoName, NoName))
           IN  [x |-> x2, dir |-> directory,
                value |-> IF x2.ok THEN "True" ELSE "False"]
      ELSE [x |-> x1, dir |-> directory, value |-> "False"]

\* set_output_directory(directory), where os.makedirs succeeds or raises:
\* the requests made, the new _default_output_dir and the value returned
SetOutputDirectory(x, dir0, directory, fsOk) ==
  IF ~fsOk THEN [x |-> x, dir |-> dir0, value |-> "False"]
  ELSE
    LET x1 == Request(x, Rq("GetOutputSettings", <<"adv_file_output">>,
                            NoName, NoName))
    IN  IF x1.ok /\ ~x1.bare
        THEN LET x2 == Request(x1, Rq("SetOutputSettings",
                                      <<"adv_file_output">>, NoName, NoName))
             IN  IF x2.ok
                 THEN [x |-> x2, dir |-> directory, value |-> "True"]
                 ELSE SimpleOutputSettings(x2, directory)
        ELSE SimpleOutputSettings(x1, directory)

\* RecordingManager.start(output_directory, filename): how it ends, and the
\* new _default_output_dir
RecordingStart(x, dir0, output_directory, filename, fsOk) ==
  LET x1 == Request(x, OutputRq("GetRecordStatus"))
  IN  IF ~x1.ok THEN [o |-> Caught(x1, "False"), dir |-> dir0]
      ELSE IF OutputActive(x1, "record")
      THEN [o |-> MRaises(x1, "OBSOutputRunningError"), dir |-> dir0]
      ELSE
        LET d  == IF Given(output_directory)
                  THEN SetOutputDirectory(x1, dir0, output_directory, fsOk)
                  ELSE IF dir0 = NoDir
                  THEN SetOutputDirectory(x1, dir0, DownloadDir, fsOk)
                  ELSE [x |-> x1, dir |-> dir0, value |-> ""]
            x2 == IF Given(filename) /\ Given(output_directory)
                  THEN Request(d.x, OutputRq("SetRecordFilename"))
                  ELSE d.x
            x3 == Request(x2, OutputRq("StartRecord"))
        IN  [o   |-> IF ~x3.ok THEN Caught(x3, "False")
                     ELSE MReturns(x3, "True"),
             dir |-> d.dir]

\* RecordingManager.stop()
RecordingStop(x) ==
  LET x1 == Request(x, OutputRq("GetRecordStatus"))
  IN  IF ~x1.ok THEN Caught(x1, "None")
      ELSE IF ~OutputActive(x1, "record")
           THEN MRaises(x1, "OBSOutputNotRunningError")
           ELSE LET x2 == Request(x1, OutputRq("StopRecord"))
                IN  IF ~x2.ok THEN Caught(x2, "None")
                    ELSE MReturns(x2, IF x2.bare THEN "" ELSE "outputPath")

\* pause goes on whatever the status says
PauseNeverRefused(active) == FALSE

\* if not self.is_recording(): log a warning, return False
PauseRefused(active) == ~active

\* RecordingManager.pause()
RecordingPause(x) ==
  LET x1 == Request(x, OutputRq("GetRecordStatus"))
  IN  IF ~x1.ok THEN Caught(x1, "False")
      ELSE IF PauseRefused(OutputActive(x1, "record"))
      THEN MReturns(x1, "False")
      ELSE
        LET x2 == Request(x1, OutputRq("GetRecordStatus"))
        IN  IF ~x2.ok THEN Caught(x2, "False")
            ELSE IF OutputActive(x2, "paused") THEN MReturns(x2, "True")
            ELSE LET x3 == Request(x2, OutputRq("PauseRecord"))
                 IN  IF ~x3.ok THEN Caught(x3, "False")
                     ELSE MReturns(x3, "True")

\* RecordingManager.resume()
RecordingResume(x) ==
  LET x1 == Request(x, OutputRq("GetRecordStatus"))
  IN  IF ~x1.ok THEN Caught(x1, "False")
      ELSE IF ~OutputActive(x1, "record") THEN MReturns(x1, "False")
      ELSE
        LET x2 == Request(x1, OutputRq("GetRecordStatus"))
        IN  IF ~x2.ok THEN Caught(x2, "False")
            ELSE IF ~OutputActive(x2, "paused") THEN MReturns(x2, "True")
            ELSE LET x3 == Request(x2, OutputRq("ResumeRecord"))
                 IN  IF ~x3.ok THEN Caught(x3, "False")
                     ELSE MReturns(x3, "True")

\* for attempt in range(3)
MoveAttempts == 3

\* except Exception of quick_record, on the manager call x:
\*   try: if self.is_recording(): self.stop()
\*   except: pass
\*   return None
QuickRecordFailed(x) ==
  LET x1 == Request(x, OutputRq("GetRecordStatus"))
  IN  IF x1.ok /\ OutputActive(x1, "record")
      THEN RecordingStop(x1).x
      ELSE x1

\* The loop over _move_file_to_directory, whose first moveFails calls return
\* None: the calls made and the path returned
MoveLoop(moveFails) ==
  IF moveFails < MoveAttempts
  THEN [moves |-> moveFails + 1, value |-> "moved_path"]
  ELSE [moves |-> MoveAttempts, value |-> "outputPath"]

\* Where quick_record goes on after self.start() ended as o: into the
\* handler, to time.sleep(duration), or to return None ("" is the return).
AfterStart(o) ==
  IF o.kind = "raise" THEN "except"
  ELSE IF o.value = "True" THEN "sleep"
  ELSE ""

\* Where quick_record goes on after self.stop() ended as p: into the
\* handler, to the comparison of the directories, or to return None.
AfterStop(p) ==
  IF p.kind = "raise" THEN "except"
  ELSE IF p.value = "outputPath" THEN "move"
  ELSE ""

----------------------------------------------------------------------------
(* State.                                                                  *)

NoCall ==
  [op |-> "none", max_retries |-> 0, script |-> <<>>, outcome |-> "",
   err |-> <<>>, closeOk |-> TRUE, kind |-> "", bodyExc |-> "",
   propagated |-> "", preIsConnected |-> FALSE, preConnected |-> FALSE,
   preWs |-> None]

\* The record of a call of method op made in the current state.
Called(op) ==
  [NoCall EXCEPT !.op = op, !.preIsConnected = IsConnected(Self),
                 !.preConnected = connected, !.preWs = ws]

\* No manager method has run since the caller last looked.
NoManagerCall ==
  [op |-> "none", name |-> NoName, name2 |-> NoName, uuid |-> NoName,
   input_kind |-> NoName, check |-> FALSE, duration |-> NoDuration,
   dir |-> NoDir, file |-> NoDir, fsOk |-> TRUE,
   tape |-> <<>>, pre |-> RemoteInit, later |-> RemoteInit, kind |-> "",
   exc |-> "", value |-> "", resource |-> NoName, available |-> <<>>,
   log |-> <<>>, n |-> 0, payload |-> {}, mapping |-> {}, sleepOk |-> TRUE,
   sameDir |-> TRUE, moveFails |-> 0, moves |-> 0, at |-> "",
   started |-> FALSE]

\* No listener method and no dispatcher has run since the caller last looked.
NoEvent ==
  [op |-> "none", callback |-> 0, event_type |-> NoType, raisers |-> {},
   registerOk |-> TRUE, invoked |-> <<>>, warned |-> FALSE, kind |-> "",
   preGlobal |-> <<>>, preEvent |-> EmptyDict, runs |-> 0, phase |-> "",
   i |-> 0]

Init ==
  /\ config \in [max_retries : 0..MaxConfigRetries]
  /\ ws = None
  /\ connected = FALSE
  /\ nextHandle = 1
  /\ sess = [h \in Handles |-> FreshSession]
  /\ last = NoCall
  /\ res = [kind |-> "none", exc |-> "", value |-> "", msg |-> <<>>]
  /\ ev = <<>>
  /\ scope = "none"
  /\ lock = NoThread
  /\ pc = [t \in Threads |-> "idle"]
  /\ global_callbacks = <<>>
  /\ event_callbacks = EmptyDict
  /\ functions = [h \in Handles |-> <<>>]
  /\ evt = NoEvent
  /\ remote = RemoteInit
  /\ mgr = NoManagerCall
  /\ default_output_dir = NoDir

\* The client and the outcome after a method call that ended as r.
Finish(r) ==
  /\ ws' = r.c.ws
  /\ connected' = r.c.connected
  /\ nextHandle' = r.c.nextHandle
  /\ sess' = r.c.sess
  /\ res' = [kind |-> r.kind, exc |-> r.exc, value |-> r.value, msg |-> r.msg]
  /\ ev' = r.ev

\* A connect that constructs a session object needs an unused identity.
CanConstruct(c, outcome) ==
  AlreadyConnected(c) \/ outcome = "ctor_raises" \/ c.nextHandle <= MaxHandles

ConnectInputs ==
  {<<"ok", <<>>>>} \cup
  {<<o, e>> : o \in {"ctor_raises", "open_raises"}, e \in ConnectErrors}

----------------------------------------------------------------------------
(* Spec: one caller, one action per method call.                           *)

DoConnect ==
  \E i \in ConnectInputs :
    /\ CanConstruct(Self, i[1])
    /\ Finish(Connect(Self, i[1], i[2]))
    /\ last' = [Called("connect") EXCEPT !.outcome = i[1], !.err = i[2]]
    /\ UNCHANGED <<config, scope, lock, pc, ext>>

DoDisconnect ==
  \E closeOk \in BOOLEAN :
    /\ Finish(Disconnect(Self, closeOk))
    /\ last' = [Called("disconnect") EXCEPT !.closeOk = closeOk]
    /\ UNCHANGED <<config, scope, lock, pc, ext>>

DoCall ==
  \E m \in (-1)..MaxRetriesArg :
    \E script \in Scripts(m + 1) :
      /\ Finish(Call(Self, m, script))
      /\ last' = [Called("call") EXCEPT !.max_retries = m, !.script = script]
      /\ UNCHANGED <<config, scope, lock, pc, ext>>

DoHelper ==
  \E rq \in HelperRequests :
    \E script \in Scripts(HelperMaxRetries(config) + 1) :
      /\ Finish(Helper(Self, config, script))
      /\ last' = [Called(rq) EXCEPT !.max_retries = HelperMaxRetries(config),
                                    !.script = script]
      /\ UNCHANGED <<config, scope, lock, pc, ext>>

WithEnter ==
  \E kind \in ScopeKinds :
    \E i \in ConnectInputs :
      /\ scope = "none"
      /\ CanConstruct(Self, i[1])
      /\ LET r == Enter(kind, Self, i[1], i[2])
         IN /\ Finish(r)
            /\ scope' = IF r.kind = "raise" THEN "none" ELSE kind
      /\ last' = [Called("__enter__") EXCEPT !.outcome = i[1], !.err = i[2],
                                             !.kind = kind]
      /\ UNCHANGED <<config, lock, pc, ext>>

WithExit ==
  \E bodyExc \in BodyOutcomes :
    \E closeOk \in BOOLEAN :
      /\ scope # "none"
      /\ LET r == Exit(scope, Self, bodyExc, closeOk)
         IN /\ Finish(r)
            /\ last' = [Called("__exit__") EXCEPT
                          !.closeOk = closeOk, !.kind = scope,
                          !.bodyExc = bodyExc,
                          !.propagated = Propagated(bodyExc, r.value)]
      /\ scope' = "none"
      /\ UNCHANGED <<config, lock, pc, ext>>

Next ==
  \/ DoConnect
  \/ DoDisconnect
  \/ DoCall
  \/ DoHelper

Spec == Init /\ [][Next]_vars

\* SpecScope: the caller also uses the client or the manager in a
\* with-statement, whose body may connect and disconnect.
NextScope ==
  \/ DoConnect
  \/ DoDisconnect
  \/ WithEnter
  \/ WithExit

SpecScope == Init /\ [][NextScope]_vars

----------------------------------------------------------------------------
(* SpecThreads: threads inside connect() and disconnect(), one statement   *)
(* per step.                                                               *)

\* a lock that excludes nobody
LockAlwaysFree == TRUE

\* with self._connection_lock: the lock can be taken when nobody holds it
LockFree == lock = NoThread

Release == lock' = NoThread

Goto(t, l) == pc' = [pc EXCEPT ![t] = l]

\* The thread is between acquiring and releasing the lock.
InBody(t) == pc[t] \notin {"idle", "c_lock", "d_lock"}

UnchangedCalls == UNCHANGED <<config, last, res, ev, scope, ext>>

\* a thread calls connect() or disconnect()
T_Invoke(t) ==
  /\ pc[t] = "idle"
  /\ \E l \in {"c_lock", "d_lock"} : Goto(t, l)
  /\ UNCHANGED <<ws, connected, nextHandle, sess, lock>>
  /\ UnchangedCalls

\* with self._connection_lock:
T_Acquire(t) ==
  /\ pc[t] \in {"c_lock", "d_lock"}
  /\ LockFree
  /\ lock' = t
  /\ Goto(t, IF pc[t] = "c_lock" THEN "c_check" ELSE "d_check")
  /\ UNCHANGED <<ws, connected, nextHandle, sess>>
  /\ UnchangedCalls

\* if self._connected: return True
T_ConnectCheck(t) ==
  /\ pc[t] = "c_check"
  /\ IF AlreadyConnected(Self)
     THEN Release /\ Goto(t, "idle")
     ELSE UNCHANGED lock /\ Goto(t, "c_new")
  /\ UNCHANGED <<ws, connected, nextHandle, sess>>
  /\ UnchangedCalls

\* self._ws = obsws(...)
T_ConnectNew(t) ==
  /\ pc[t] = "c_new"
  /\ \/ /\ nextHandle <= MaxHandles
        /\ LET c1 == Construct(Self)
           IN ws' = c1.ws /\ nextHandle' = c1.nextHandle /\ sess' = c1.sess
        /\ Goto(t, "c_open")
     \/ /\ UNCHANGED <<ws, nextHandle, sess>>
        /\ Goto(t, "c_except")
  /\ UNCHANGED <<connected, lock>>
  /\ UnchangedCalls

\* self._ws.connect(), on whatever self._ws is now
T_ConnectOpen(t) ==
  /\ pc[t] = "c_open"
  /\ IF ws = None
     THEN UNCHANGED sess /\ Goto(t, "c_except")
     ELSE \E ok \in BOOLEAN :
            /\ sess' = OpenSession(sess, ws, ok)
            /\ Goto(t, IF ok THEN "c_set" ELSE "c_except")
  /\ UNCHANGED <<ws, connected, nextHandle, lock>>
  /\ UnchangedCalls

\* self._connected = True; return True
T_ConnectSet(t) ==
  /\ pc[t] = "c_set"
  /\ connected' = TRUE
  /\ Release
  /\ Goto(t, "idle")
  /\ UNCHANGED <<ws, nextHandle, sess>>
  /\ UnchangedCalls

\* except Exception: self._connected = False; raise ...
T_ConnectExcept(t) ==
  /\ pc[t] = "c_except"
  /\ connected' = FALSE
  /\ Release
  /\ Goto(t, "idle")
  /\ UNCHANGED <<ws, nextHandle, sess>>
  /\ UnchangedCalls

\* if not self._connected or not self._ws: return
T_DisconnectCheck(t) ==
  /\ pc[t] = "d_check"
  /\ IF NothingToClose(Self)
     THEN Release /\ Goto(t, "idle")
     ELSE UNCHANGED lock /\ Goto(t, "d_close")
  /\ UNCHANGED <<ws, connected, nextHandle, sess>>
  /\ UnchangedCalls

\* self._ws.disconnect(), on whatever self._ws is now
T_DisconnectClose(t) ==
  /\ pc[t] = "d_close"
  /\ IF ws = None
     THEN UNCHANGED sess /\ Goto(t, "d_except")
     ELSE /\ sess' = CloseSession(sess, ws)
          /\ \E ok \in BOOLEAN : Goto(t, IF ok THEN "d_reset" ELSE "d_except")
  /\ UNCHANGED <<ws, connected, nextHandle, lock>>
  /\ UnchangedCalls

\* self._connected = False; self._ws = None (try branch and except branch)
T_DisconnectReset(t) ==
  /\ pc[t] \in {"d_reset", "d_except"}
  /\ connected' = FALSE
  /\ ws' = None
  /\ Release
  /\ Goto(t, "idle")
  /\ UNCHANGED <<nextHandle, sess>>
  /\ UnchangedCalls

NextThreads ==
  \E t \in Threads :
    \/ T_Invoke(t)
    \/ T_Acquire(t)
    \/ T_ConnectCheck(t)
    \/ T_ConnectNew(t)
    \/ T_ConnectOpen(t)
    \/ T_ConnectSet(t)
    \/ T_ConnectExcept(t)
    \/ T_DisconnectCheck(t)
    \/ T_DisconnectClose(t)
    \/ T_DisconnectReset(t)

SpecThreads == Init /\ [][NextThreads]_vars

----------------------------------------------------------------------------
(* SpecCallRace: a thread inside call(), one statement per step, while the  *)
(* other threads are inside connect() and disconnect().                     *)

\* str(e) of the AttributeError of self._ws.call when self._ws is None
NoneHasNoCall == <<"'NoneType' object has no attribute 'call'">>

\* str(e) of what the transport raises for a request on a session that is
\* not open
SessionNotOpen == <<"socket is closed">>

CallLabels == {"k_check", "k_try", "k_sleep", "k_raise"}

\* The iterations of the for loop begun so far.
AttemptsMade ==
  Cardinality({i \in 1..Len(ev) : ev[i].t \in {"attempt", "none_ws"}})

\* a thread calls call(request, max_retries)
K_Invoke(t) ==
  \E m \in 0..MaxRetriesArg :
    /\ pc[t] = "idle"
    /\ \A u \in Threads : pc[u] \notin CallLabels
    /\ last' = [Called("call") EXCEPT !.max_retries = m]
    /\ res' = [kind |-> "none", exc |-> "", value |-> "", msg |-> <<>>]
    /\ ev' = <<>>
    /\ Goto(t, "k_check")
    /\ UNCHANGED <<config, ws, connected, nextHandle, sess, scope, lock, ext>>

\* if not self.is_connected(): raise OBSConnectionError(...)
K_Check(t) ==
  /\ pc[t] = "k_check"
  /\ IF IsConnected(Self)
     THEN UNCHANGED res /\ Goto(t, "k_try")
     ELSE /\ res' = [kind |-> "raise", exc |-> "OBSConnectionError",
                     value |-> "", msg |-> NotConnectedMsg]
          /\ Goto(t, "idle")
  /\ UNCHANGED <<config, ws, connected, nextHandle, sess, last, ev, scope,
                 lock, ext>>

\* An iteration of the loop ended in except Exception with the text err.
K_Except(t, event, err) ==
  /\ ev' = Append(ev, event)
  /\ last' = [last EXCEPT !.err = err]
  /\ UNCHANGED res
  /\ Goto(t, IF RetryAfter(AttemptsMade, last.max_retries)
             THEN "k_sleep" ELSE "k_raise")

\* response = self._ws.call(request), on whatever self._ws is now
K_Try(t) ==
  /\ pc[t] = "k_try"
  /\ IF ws = None
     THEN K_Except(t, E("none_ws", AttemptsMade), NoneHasNoCall)
     ELSE IF sess[ws].st # "open"
     THEN K_Except(t, E("attempt", AttemptsMade), SessionNotOpen)
     ELSE \/ /\ ev' = Append(ev, E("attempt", AttemptsMade))
             /\ res' = [kind |-> "return", exc |-> "", value |-> "resp1",
                        msg |-> <<>>]
             /\ UNCHANGED last
             /\ Goto(t, "idle")
          \/ \E m \in RequestErrors :
               K_Except(t, E("attempt", AttemptsMade), m)
  /\ UNCHANGED <<config, ws, connected, nextHandle, sess, scope, lock, ext>>

\* time.sleep(0.5 * (2 ** attempt))
K_Sleep(t) ==
  /\ pc[t] = "k_sleep"
  /\ ev' = Append(ev, E("sleep", Backoff(AttemptsMade - 1)))
  /\ Goto(t, "k_try")
  /\ UNCHANGED <<config, ws, connected, nextHandle, sess, last, res, scope,
                 lock, ext>>

\* raise OBSRequestError(error_msg)
K_Raise(t) ==
  /\ pc[t] = "k_raise"
  /\ res' = [kind |-> "raise", exc |-> "OBSRequestError", value |-> "",
             msg |-> RequestFailPrefix \o last.err]
  /\ Goto(t, "idle")
  /\ UNCHANGED <<config, ws, connected, nextHandle, sess, last, ev, scope,
                 lock, ext>>

NextCallRace ==
  \E t \in Threads :
    \/ T_Invoke(t)
    \/ T_Acquire(t)
    \/ T_ConnectCheck(t)
    \/ T_ConnectNew(t)
    \/ T_ConnectOpen(t)
    \/ T_ConnectSet(t)
    \/ T_ConnectExcept(t)
    \/ T_DisconnectCheck(t)
    \/ T_DisconnectClose(t)
    \/ T_DisconnectReset(t)
    \/ K_Invoke(t)
    \/ K_Check(t)
    \/ K_Try(t)
    \/ K_Sleep(t)
    \/ K_Raise(t)

SpecCallRace == Init /\ [][NextCallRace]_vars

----------------------------------------------------------------------------
(* SpecEvents: one caller registering and unregistering listeners, and the  *)
(* transport running the dispatcher.  The caller looks at how a call ended  *)
(* before making the next one.                                              *)

\* The caller has looked at the outcome of the last call.
Quiet == evt.op = "none" /\ mgr.op = "none"

\* The number of listeners in the registries.
Registered ==
  Len(global_callbacks) +
  Cardinality(UNION {{<<t, i>> : i \in 1..Len(event_callbacks[t])} :
                       t \in DOMAIN event_callbacks})

\* A call of op on the current registries.
EventCall(op, callback, event_type) ==
  [NoEvent EXCEPT !.op = op, !.callback = callback, !.event_type = event_type,
                  !.preGlobal = global_callbacks, !.preEvent = event_callbacks]

UnchangedClient ==
  UNCHANGED <<config, ws, connected, nextHandle, sess, last, res, ev, scope,
              lock, pc>>

\* connect() on a client that is not connected, succeeding
CallerConnects ==
  /\ Quiet
  /\ ~AlreadyConnected(Self)
  /\ CanConstruct(Self, "ok")
  /\ LET r == Connect(Self, "ok", <<>>)
     IN  /\ ws' = r.c.ws
         /\ connected' = r.c.connected
         /\ nextHandle' = r.c.nextHandle
         /\ sess' = r.c.sess
  /\ UNCHANGED <<config, last, res, ev, scope, lock, pc, ext>>

E_Register ==
  \E cb \in Listeners, t \in EventTypes \cup {NoType}, ok \in BOOLEAN :
    /\ Quiet
    /\ Registered < MaxRegistered
    /\ ws # None => Len(functions[ws]) < MaxFunctions
    /\ ~ok => (ws # None /\ Trigger(t) # "")
    /\ LET r == RegisterEventCallback(Reg, ws, cb, t, ok)
       IN  /\ global_callbacks' = r.reg.global
           /\ event_callbacks' = r.reg.event
           /\ functions' = r.reg.functions
           /\ evt' = [EventCall("register", cb, t) EXCEPT
                        !.registerOk = ok, !.warned = r.warned,
                        !.kind = r.kind]
    /\ UNCHANGED <<remote, mgr, default_output_dir>>
    /\ UnchangedClient

E_Unregister ==
  \E cb \in Listeners, t \in EventTypes \cup {NoType} :
    /\ Quiet
    /\ LET r == UnregisterEventCallback(Reg, cb, t)
       IN  /\ global_callbacks' = r.reg.global
           /\ event_callbacks' = r.reg.event
           /\ functions' = r.reg.functions
           /\ evt' = [EventCall("unregister", cb, t) EXCEPT
                        !.warned = r.warned, !.kind = r.kind]
    /\ UNCHANGED <<remote, mgr, default_output_dir>>
    /\ UnchangedClient

E_Dispatch ==
  \E t \in EventTypes, raisers \in SUBSET Listeners :
    /\ Quiet
    /\ LET r == EventDispatcher(Reg, t, raisers)
       IN  evt' = [EventCall("dispatch", 0, t) EXCEPT
                     !.raisers = raisers, !.invoked = r.invoked,
                     !.kind = r.kind]
    /\ UNCHANGED <<global_callbacks, event_callbacks, functions, remote, mgr,
               default_output_dir>>
    /\ UnchangedClient

E_Return ==
  /\ evt.op \notin {"none", "dispatching"}
  /\ evt' = NoEvent
  /\ UNCHANGED <<global_callbacks, event_callbacks, functions, remote, mgr,
               default_output_dir>>
  /\ UnchangedClient

NextEvents == CallerConnects \/ E_Register \/ E_Unregister \/ E_Dispatch \/ E_Return

SpecEvents == Init /\ [][NextEvents]_vars

----------------------------------------------------------------------------
(* SpecDelivery: one caller registering and unregistering listeners, and    *)
(* the transport delivering inbound messages on the session of a connected  *)
(* client.                                                                  *)

E_Inbound ==
  \E t \in EventTypes, raisers \in SUBSET Listeners :
    /\ Quiet
    /\ IsConnected(Self)
    /\ LET r == Inbound(Reg, ws, t, raisers)
       IN  evt' = [EventCall("inbound", 0, t) EXCEPT
                     !.raisers = raisers, !.invoked = r.invoked,
                     !.kind = r.kind, !.runs = r.runs]
    /\ UNCHANGED <<global_callbacks, event_callbacks, functions, remote, mgr,
               default_output_dir>>
    /\ UnchangedClient

NextDelivery ==
  CallerConnects \/ E_Register \/ E_Unregister \/ E_Inbound \/ E_Return

SpecDelivery == Init /\ [][NextDelivery]_vars

----------------------------------------------------------------------------
(* SpecDispatch: the dispatcher one listener call per step, with listeners  *)
(* that unregister listeners while they run and another thread that does    *)
(* so between two listener calls.                                           *)

\* One call of a listener by the loop over the list of a scope.
ListenerCall(callback, raised, sc) ==
  [cb |-> callback, raised |-> raised, scope |-> sc]

\* The scope a loop of the dispatcher serves.
ScopeOf(phase, event_type) == IF phase = "global" THEN NoType ELSE event_type

\* The dispatcher is between two listener calls.
Dispatching == evt.op = "dispatching"

UnchangedManagers == UNCHANGED <<remote, mgr, default_output_dir>>

\* _event_dispatcher(message) is entered.
D_Begin ==
  \E t \in EventTypes, raisers \in SUBSET Listeners :
    /\ Quiet
    /\ evt' = [EventCall("dispatching", 0, t) EXCEPT
                 !.raisers = raisers, !.phase = "global"]
    /\ UNCHANGED <<global_callbacks, event_callbacks, functions>>
    /\ UnchangedManagers
    /\ UnchangedClient

\* The loop calls its next listener, which returns or raises at once.
D_Invoke ==
  /\ Dispatching
  /\ LET list == Iterated(Reg, evt.phase, evt.event_type)
     IN  /\ HasNext(list, evt.i)
         /\ LET n == IterNext(list, evt.i)
            IN  evt' = [evt EXCEPT
                          !.i = n.i,
                          !.invoked =
                            Append(@, ListenerCall(n.callback,
                                             n.callback \in evt.raisers,
                                             ScopeOf(evt.phase,
                                                     evt.event_type)))]
  /\ UNCHANGED <<global_callbacks, event_callbacks, functions>>
  /\ UnchangedManagers
  /\ UnchangedClient

\* The loop calls its next listener, which calls unregister_event_callback
\* before it returns or raises.
D_InvokeUnregistering ==
  \E cb \in Listeners, t \in EventTypes \cup {NoType} :
    /\ Dispatching
    /\ LET list == Iterated(Reg, evt.phase, evt.event_type)
       IN  /\ HasNext(list, evt.i)
           /\ LET n == IterNext(list, evt.i)
                  r == UnregisterEventCallback(Reg, cb, t)
              IN  /\ evt' = [evt EXCEPT
                               !.i = n.i,
                               !.invoked =
                                 Append(@, ListenerCall(n.callback,
                                                  n.callback \in evt.raisers,
                                                  ScopeOf(evt.phase,
                                                          evt.event_type)))]
                  /\ global_callbacks' = r.reg.global
                  /\ event_callbacks' = r.reg.event
                  /\ functions' = r.reg.functions
    /\ UnchangedManagers
    /\ UnchangedClient

\* Another thread calls unregister_event_callback between two listener
\* calls of the dispatcher.
D_OtherUnregisters ==
  \E cb \in Listeners, t \in EventTypes \cup {NoType} :
    /\ Dispatching
    /\ LET r == UnregisterEventCallback(Reg, cb, t)
       IN  /\ r.reg # Reg
           /\ global_callbacks' = r.reg.global
           /\ event_callbacks' = r.reg.event
           /\ functions' = r.reg.functions
    /\ UNCHANGED evt
    /\ UnchangedManagers
    /\ UnchangedClient

\* The iterator of a loop is exhausted: the next loop begins, or the
\* dispatcher returns.
D_LoopEnds ==
  /\ Dispatching
  /\ ~HasNext(Iterated(Reg, evt.phase, evt.event_type), evt.i)
  /\ LET next == IF evt.phase = "global"
                 THEN AfterGlobal(Reg, evt.event_type)
                 ELSE "done"
     IN  evt' = [evt EXCEPT !.phase = next, !.i = 0,
                            !.op = IF next = "done" THEN "dispatched"
                                   ELSE "dispatching",
                            !.kind = IF next = "done" THEN "return" ELSE ""]
  /\ UNCHANGED <<global_callbacks, event_callbacks, functions>>
  /\ UnchangedManagers
  /\ UnchangedClient

NextDispatch ==
  \/ E_Register
  \/ E_Return
  \/ D_Begin
  \/ D_Invoke
  \/ D_InvokeUnregistering
  \/ D_OtherUnregisters
  \/ D_LoopEnds

SpecDispatch == Init /\ [][NextDispatch]_vars

----------------------------------------------------------------------------
(* The caller of the managers, and the OBS instance changing by itself.     *)

\* The fates of the n requests a method may make.
Tapes(n, fates) == [1..n -> fates]

\* the fates of prefix, then n - Len(prefix) answered requests
Pad(prefix, n) ==
  [i \in 1..n |-> IF i <= Len(prefix) THEN prefix[i] ELSE "ok"]

\* Requests that are not made have no fate.
Canonical(o, tape) == \A i \in DOMAIN tape : i > o.x.n => tape[i] = "ok"

\* What the OBS instance may be after the first request of a call that ends
\* as o0 if the instance stays as it is: a call of fewer than two requests
\* cannot tell whether the instance changes under it.
LatersFor(o0, tape, laters) ==
  IF ~Canonical(o0, tape) THEN {}
  ELSE IF o0.x.n >= 2 THEN laters
  ELSE {remote}

\* The call of method op that ended as o.
Managed(op, o, tape, later) ==
  [NoManagerCall EXCEPT !.op = op, !.tape = tape, !.pre = remote,
                        !.later = later, !.kind = o.kind, !.exc = o.exc,
                        !.value = o.value, !.resource = o.resource,
                        !.available = o.available, !.log = o.x.log,
                        !.n = o.x.n]

UnchangedEvents ==
  UNCHANGED <<global_callbacks, event_callbacks, functions, evt>>

\* A manager method call that ended as o and is recorded as m.
ManagerCall(o, m) ==
  /\ mgr' = m
  /\ remote' = o.x.remote
  /\ UNCHANGED default_output_dir
  /\ UnchangedEvents
  /\ UnchangedClient

\* The caller looks at how the manager method ended.
M_Return ==
  /\ mgr.op # "none"
  /\ mgr.at = ""
  /\ mgr' = NoManagerCall
  /\ UNCHANGED remote
  /\ UNCHANGED default_output_dir
  /\ UnchangedEvents
  /\ UnchangedClient

----------------------------------------------------------------------------
(* SpecInputs: one caller of the methods of InputManager that address an    *)
(* input by name.                                                           *)

NameArgs == Names \cup {<<>>, Blank}
InputLaters == {[remote EXCEPT !.inputs = l] : l \in NameLists}

\* Inputs are created, removed and renamed in OBS itself.
RemoteInputsChange ==
  \E l \in NameLists :
    /\ Quiet
    /\ l # remote.inputs
    /\ remote' = [remote EXCEPT !.inputs = l]
    /\ UNCHANGED mgr
    /\ UNCHANGED default_output_dir
    /\ UnchangedEvents
    /\ UnchangedClient

I_IsMuted ==
  /\ Quiet
  /\ LET t == CallTable(Self)
     IN  \E name \in NameArgs, tape \in Tapes(3, Fates) :
           \E later \in LatersFor(IsMuted(Start(t, remote, remote, tape), name),
                                  tape, InputLaters) :
             LET o == IsMuted(Start(t, remote, later, tape), name)
             IN  ManagerCall(o, [Managed("is_muted", o, tape, later) EXCEPT
                                   !.name = name])

I_Mute ==
  /\ Quiet
  /\ LET t == CallTable(Self)
     IN  \E name \in NameArgs, tape \in Tapes(3, Fates) :
           \E later \in LatersFor(Mute(Start(t, remote, remote, tape), name),
                                  tape, InputLaters) :
             LET o == Mute(Start(t, remote, later, tape), name)
             IN  ManagerCall(o, [Managed("mute", o, tape, later) EXCEPT
                                   !.name = name])

I_Unmute ==
  /\ Quiet
  /\ LET t == CallTable(Self)
     IN  \E name \in NameArgs, tape \in Tapes(3, Fates) :
           \E later \in LatersFor(Unmute(Start(t, remote, remote, tape), name),
                                  tape, InputLaters) :
             LET o == Unmute(Start(t, remote, later, tape), name)
             IN  ManagerCall(o, [Managed("unmute", o, tape, later) EXCEPT
                                   !.name = name])

\* The fates of the requests of toggle_mute: those of its try block and,
\* where the try block ends in except Exception, those of is_muted.
ToggleTapes(t, name) ==
  UNION {
    LET o1 == ToggleRequest(Start(t, remote, remote, Pad(t1, 6)), name)
    IN  IF ~Canonical(o1, t1) THEN {}
        ELSE IF o1.caught
        THEN {Pad(SubSeq(t1, 1, o1.x.n) \o t2, 6) : t2 \in Tapes(3, Fates)}
        ELSE {Pad(t1, 6)}
    : t1 \in Tapes(3, Fates)}

I_ToggleMute ==
  /\ Quiet
  /\ LET t == CallTable(Self)
     IN  \E name \in NameArgs :
           \E tape \in ToggleTapes(t, name) :
             \E later \in LatersFor(
                            ToggleMute(Start(t, remote, remote, tape), name),
                            tape, InputLaters) :
               LET o == ToggleMute(Start(t, remote, later, tape), name)
               IN  ManagerCall(o, [Managed("toggle_mute", o, tape, later)
                                     EXCEPT !.name = name])

I_GetSettings ==
  /\ Quiet
  /\ LET t == CallTable(Self)
     IN  \E name \in NameArgs, tape \in Tapes(3, Fates) :
           \E later \in LatersFor(
                          InputGetSettings(Start(t, remote, remote, tape), name),
                          tape, InputLaters) :
             LET o == InputGetSettings(Start(t, remote, later, tape), name)
             IN  ManagerCall(o, [Managed("get_settings", o, tape, later)
                                   EXCEPT !.name = name])

I_SetSettings ==
  /\ Quiet
  /\ LET t == CallTable(Self)
     IN  \E name \in NameArgs, tape \in Tapes(3, Fates) :
           \E later \in LatersFor(
                          InputSetSettings(Start(t, remote, remote, tape), name),
                          tape, InputLaters) :
             LET o == InputSetSettings(Start(t, remote, later, tape), name)
             IN  ManagerCall(o, [Managed("set_settings", o, tape, later)
                                   EXCEPT !.name = name])

NextInputs ==
  \/ CallerConnects
  \/ RemoteInputsChange
  \/ I_IsMuted
  \/ I_Mute
  \/ I_Unmute
  \/ I_ToggleMute
  \/ I_GetSettings
  \/ I_SetSettings
  \/ M_Return

SpecInputs == Init /\ [][NextInputs]_vars

----------------------------------------------------------------------------
(* SpecSpecialInputs: one caller of get_special_inputs.                     *)

\* The key is not in the payload.
Missing == <<"missing">>

\* The keys whose value varies from payload to payload.
VariedKeys == {"desktop1", "mic1", "mic4"}

\* The payloads of the response: desktop2 is missing, mic2 is named, mic3 is
\* None, the other keys are missing, None, empty or named, and there may be
\* a key that is not one of the six.
Payloads ==
  {{<<"mic2", <<"B">>>>, <<"mic3", NoName>>} \cup
   {<<k, f[k]>> : k \in {j \in VariedKeys : f[j] # Missing}} \cup e :
     f \in [VariedKeys -> {Missing, NoName, <<>>, <<"A">>}],
     e \in {{}, {<<"inputs", <<"A">>>>}}}

I_GetSpecialInputs ==
  /\ Quiet
  /\ LET t == CallTable(Self)
     IN  \E tape \in Tapes(1, Fates), datain \in Payloads :
           LET r == GetSpecialInputs(Start(t, remote, remote, tape), datain)
           IN  /\ tape[1] # "ok" => datain = CHOOSE d \in Payloads : TRUE
               /\ ManagerCall(r.o, [Managed("get_special_inputs", r.o, tape,
                                            remote)
                                      EXCEPT !.payload = datain,
                                             !.mapping = r.mapping])

NextSpecialInputs ==
  \/ CallerConnects
  \/ I_GetSpecialInputs
  \/ M_Return

SpecSpecialInputs == Init /\ [][NextSpecialInputs]_vars

----------------------------------------------------------------------------
(* SpecInputIds: one caller of create_input, remove_input and rename_input. *)

KindArgs == {<<>>, <<"k">>}
SceneArgs == {NoName, <<"S">>}
UuidArgs == {NoName, <<"u">>}

I_CreateInput ==
  /\ Quiet
  /\ LET t == CallTable(Self)
     IN  \E name \in NameArgs \cup {NoName}, kind \in KindArgs,
            scene \in SceneArgs, uuid \in UuidArgs, check \in BOOLEAN,
            tape \in Tapes(3, Fates) :
           \E later \in LatersFor(
                          CreateInput(Start(t, remote, remote, tape), name,
                                      kind, scene, uuid, check),
                          tape, InputLaters) :
             LET o == CreateInput(Start(t, remote, later, tape), name, kind,
                                  scene, uuid, check)
             IN  ManagerCall(o, [Managed("create_input", o, tape, later)
                                   EXCEPT !.name = name, !.input_kind = kind,
                                          !.name2 = scene, !.uuid = uuid,
                                          !.check = check])

I_RemoveInput ==
  /\ Quiet
  /\ LET t == CallTable(Self)
     IN  \E name \in NameArgs \cup {NoName}, uuid \in UuidArgs,
            tape \in Tapes(1, NamedFates) :
           \E later \in LatersFor(
                          RemoveInput(Start(t, remote, remote, tape), name,
                                      uuid),
                          tape, InputLaters) :
             LET o == RemoveInput(Start(t, remote, later, tape), name, uuid)
             IN  ManagerCall(o, [Managed("remove_input", o, tape, later)
                                   EXCEPT !.name = name, !.uuid = uuid])

I_RenameInput ==
  /\ Quiet
  /\ LET t == CallTable(Self)
     IN  \E new \in NameArgs \cup {NoName}, name \in Names \cup {NoName},
            uuid \in UuidArgs, tape \in Tapes(2, NamedFates) :
           \E later \in LatersFor(
                          RenameInput(Start(t, remote, remote, tape), new,
                                      name, uuid),
                          tape, InputLaters) :
             LET o == RenameInput(Start(t, remote, later, tape), new, name,
                                  uuid)
             IN  ManagerCall(o, [Managed("rename_input", o, tape, later)
                                   EXCEPT !.name = name, !.name2 = new,
                                          !.uuid = uuid])

NextInputIds ==
  \/ CallerConnects
  \/ RemoteInputsChange
  \/ I_CreateInput
  \/ I_RemoveInput
  \/ I_RenameInput
  \/ M_Return

SpecInputIds == Init /\ [][NextInputIds]_vars

----------------------------------------------------------------------------
(* SpecScenes: one caller of the methods of SceneManager that address a     *)
(* scene by name.                                                           *)

SceneLaters == {[remote EXCEPT !.scenes = l] : l \in NameLists}
DurationArgs == {NoDuration, 10, 49, 50, 20000, 20001, 25000}

\* Scenes are created, removed and renamed in OBS itself.
RemoteScenesChange ==
  \E l \in NameLists :
    /\ Quiet
    /\ l # remote.scenes
    /\ remote' = [remote EXCEPT !.scenes = l]
    /\ UNCHANGED mgr
    /\ UNCHANGED default_output_dir
    /\ UnchangedEvents
    /\ UnchangedClient

S_SwitchTo ==
  /\ Quiet
  /\ LET t == CallTable(Self)
     IN  \E name \in NameArgs, tape \in Tapes(2, Fates) :
           \E later \in LatersFor(SwitchTo(Start(t, remote, remote, tape), name),
                                  tape, SceneLaters) :
             LET o == SwitchTo(Start(t, remote, later, tape), name)
             IN  ManagerCall(o, [Managed("switch_to", o, tape, later) EXCEPT
                                   !.name = name])

S_SetPreview ==
  /\ Quiet
  /\ LET t == CallTable(Self)
     IN  \E name \in NameArgs, tape \in Tapes(2, Fates) :
           \E later \in LatersFor(
                          SetPreview(Start(t, remote, remote, tape), name),
                          tape, SceneLaters) :
             LET o == SetPreview(Start(t, remote, later, tape), name)
             IN  ManagerCall(o, [Managed("set_preview", o, tape, later) EXCEPT
                                   !.name = name])

S_Delete ==
  /\ Quiet
  /\ LET t == CallTable(Self)
     IN  \E name \in NameArgs, tape \in Tapes(2, Fates) :
           \E later \in LatersFor(Delete(Start(t, remote, remote, tape), name),
                                  tape, SceneLaters) :
             LET o == Delete(Start(t, remote, later, tape), name)
             IN  ManagerCall(o, [Managed("delete", o, tape, later) EXCEPT
                                   !.name = name])

S_Rename ==
  /\ Quiet
  /\ LET t == CallTable(Self)
     IN  \E name \in NameArgs, new \in NameArgs, tape \in Tapes(2, Fates) :
           \E later \in LatersFor(
                          Rename(Start(t, remote, remote, tape), name, new),
                          tape, SceneLaters) :
             LET o == Rename(Start(t, remote, later, tape), name, new)
             IN  ManagerCall(o, [Managed("rename", o, tape, later) EXCEPT
                                   !.name = name, !.name2 = new])

S_GetSceneTransitionOverride ==
  /\ Quiet
  /\ LET t == CallTable(Self)
     IN  \E name \in NameArgs, tape \in Tapes(2, Fates) :
           \E later \in LatersFor(
                          GetSceneTransitionOverride(
                            Start(t, remote, remote, tape), name),
                          tape, SceneLaters) :
             LET o == GetSceneTransitionOverride(
                        Start(t, remote, later, tape), name)
             IN  ManagerCall(o, [Managed("get_scene_transition_override", o,
                                         tape, later) EXCEPT !.name = name])

S_SetSceneTransitionOverride ==
  /\ Quiet
  /\ LET t == CallTable(Self)
     IN  \E name \in NameArgs, d \in DurationArgs, tape \in Tapes(2, Fates) :
           \E later \in LatersFor(
                          SetSceneTransitionOverride(
                            Start(t, remote, remote, tape), name, d),
                          tape, SceneLaters) :
             LET o == SetSceneTransitionOverride(
                        Start(t, remote, later, tape), name, d)
             IN  ManagerCall(o, [Managed("set_scene_transition_override", o,
                                         tape, later) EXCEPT
                                   !.name = name, !.duration = d])

NextScenes ==
  \/ CallerConnects
  \/ RemoteScenesChange
  \/ S_SwitchTo
  \/ S_SetPreview
  \/ S_Delete
  \/ S_Rename
  \/ S_GetSceneTransitionOverride
  \/ S_SetSceneTransitionOverride
  \/ M_Return

SpecScenes == Init /\ [][NextScenes]_vars

----------------------------------------------------------------------------
(* SpecLifecycle: one caller creating scenes, sources and inputs and        *)
(* deleting sources.                                                        *)

S_Create ==
  /\ Quiet
  /\ LET t == CallTable(Self)
     IN  \E name \in NameArgs, tape \in Tapes(2, Fates) :
           \E later \in LatersFor(
                          SceneCreate(Start(t, remote, remote, tape), name),
                          tape, SceneLaters) :
             LET o == SceneCreate(Start(t, remote, later, tape), name)
             IN  ManagerCall(o, [Managed("create", o, tape, later) EXCEPT
                                   !.name = name])

Src_CreateSource ==
  /\ Quiet
  /\ LET t == CallTable(Self)
     IN  \E name \in NameArgs, tape \in Tapes(2, Fates) :
           \E later \in LatersFor(
                          CreateSource(Start(t, remote, remote, tape), name),
                          tape, InputLaters) :
             LET o == CreateSource(Start(t, remote, later, tape), name)
             IN  ManagerCall(o, [Managed("create_source", o, tape, later)
                                   EXCEPT !.name = name])

Src_DeleteSource ==
  /\ Quiet
  /\ LET t == CallTable(Self)
     IN  \E name \in NameArgs, tape \in Tapes(2, Fates) :
           \E later \in LatersFor(
                          DeleteSource(Start(t, remote, remote, tape), name),
                          tape, InputLaters) :
             LET o == DeleteSource(Start(t, remote, later, tape), name)
             IN  ManagerCall(o, [Managed("delete_source", o, tape, later)
                                   EXCEPT !.name = name])

NextLifecycle ==
  \/ CallerConnects
  \/ RemoteInputsChange
  \/ RemoteScenesChange
  \/ S_Create
  \/ Src_CreateSource
  \/ Src_DeleteSource
  \/ I_CreateInput
  \/ M_Return

SpecLifecycle == Init /\ [][NextLifecycle]_vars

----------------------------------------------------------------------------
(* SpecOutputs: one caller of RecordingManager, StreamingManager and        *)
(* VirtualCameraManager.                                                    *)

OutputFields == {"record", "paused", "stream", "vcam"}

\* The OBS instance with one output flag changed; only a recording pauses.
Flipped(r, f) ==
  LET r1 == [r EXCEPT ![f] = ~r[f]]
  IN  IF r1.record THEN r1 ELSE [r1 EXCEPT !.paused = FALSE]

OutputLaters == {remote} \cup {Flipped(remote, f) : f \in OutputFields}

\* Outputs are started, stopped and paused in OBS itself.
RemoteOutputsChange ==
  \E f \in OutputFields :
    /\ Quiet
    /\ Flipped(remote, f) # remote
    /\ remote' = Flipped(remote, f)
    /\ UNCHANGED mgr
    /\ UNCHANGED default_output_dir
    /\ UnchangedEvents
    /\ UnchangedClient

\* The fates of the requests of RecordingManager.start: responses without
\* datain among the first three only.
StartTapes == {t \in Tapes(7, Fates) : \A i \in 4..7 : t[i] # "bare"}

DirArgs == {NoDir, "dir"}
FileArgs == {NoDir, "file"}

R_Start ==
  /\ Quiet
  /\ LET t == CallTable(Self)
     IN  \E dir \in DirArgs, file \in FileArgs, fsOk \in BOOLEAN,
            tape \in StartTapes :
           \E later \in LatersFor(
                          RecordingStart(Start(t, remote, remote, tape),
                                         default_output_dir, dir, file,
                                         fsOk).o,
                          tape, OutputLaters) :
             LET r == RecordingStart(Start(t, remote, later, tape),
                                     default_output_dir, dir, file, fsOk)
             IN  /\ mgr' = [Managed("recording.start", r.o, tape, later)
                              EXCEPT !.dir = dir, !.file = file,
                                     !.fsOk = fsOk]
                 /\ remote' = r.o.x.remote
                 /\ default_output_dir' = r.dir
                 /\ UnchangedEvents
                 /\ UnchangedClient

R_Stop ==
  /\ Quiet
  /\ LET t == CallTable(Self)
     IN  \E tape \in Tapes(2, Fates) :
           \E later \in LatersFor(RecordingStop(Start(t, remote, remote, tape)),
                                  tape, OutputLaters) :
             LET o == RecordingStop(Start(t, remote, later, tape))
             IN  ManagerCall(o, Managed("recording.stop", o, tape, later))

R_Pause ==
  /\ Quiet
  /\ LET t == CallTable(Self)
     IN  \E tape \in Tapes(3, Fates) :
           \E later \in LatersFor(RecordingPause(Start(t, remote, remote, tape)),
                                  tape, OutputLaters) :
             LET o == RecordingPause(Start(t, remote, later, tape))
             IN  ManagerCall(o, Managed("recording.pause", o, tape, later))

R_Resume ==
  /\ Quiet
  /\ LET t == CallTable(Self)
     IN  \E tape \in Tapes(3, Fates) :
           \E later \in LatersFor(
                          RecordingResume(Start(t, remote, remote, tape)),
                          tape, OutputLaters) :
             LET o == RecordingResume(Start(t, remote, later, tape))
             IN  ManagerCall(o, Managed("recording.resume", o, tape, later))

St_Start ==
  /\ Quiet
  /\ LET t == CallTable(Self)
     IN  \E tape \in Tapes(2, Fates) :
           \E later \in LatersFor(StreamingStart(Start(t, remote, remote, tape)),
                                  tape, OutputLaters) :
             LET o == StreamingStart(Start(t, remote, later, tape))
             IN  ManagerCall(o, Managed("streaming.start", o, tape, later))

St_Stop ==
  /\ Quiet
  /\ LET t == CallTable(Self)
     IN  \E tape \in Tapes(2, Fates) :
           \E later \in LatersFor(StreamingStop(Start(t, remote, remote, tape)),
                                  tape, OutputLaters) :
             LET o == StreamingStop(Start(t, remote, later, tape))
             IN  ManagerCall(o, Managed("streaming.stop", o, tape, later))

V_Start ==
  /\ Quiet
  /\ LET t == CallTable(Self)
     IN  \E tape \in Tapes(2, Fates) :
           \E later \in LatersFor(
                          VirtualCameraStart(Start(t, remote, remote, tape)),
                          tape, OutputLaters) :
             LET o == VirtualCameraStart(Start(t, remote, later, tape))
             IN  ManagerCall(o, Managed("virtual_camera.start", o, tape, later))

V_Stop ==
  /\ Quiet
  /\ LET t == CallTable(Self)
     IN  \E tape \in Tapes(2, Fates) :
           \E later \in LatersFor(
                          VirtualCameraStop(Start(t, remote, remote, tape)),
                          tape, OutputLaters) :
             LET o == VirtualCameraStop(Start(t, remote, later, tape))
             IN  ManagerCall(o, Managed("virtual_camera.stop", o, tape, later))

NextOutputs ==
  \/ CallerConnects
  \/ RemoteOutputsChange
  \/ R_Start
  \/ R_Stop
  \/ R_Pause
  \/ R_Resume
  \/ St_Start
  \/ St_Stop
  \/ V_Start
  \/ V_Stop
  \/ M_Return

SpecOutputs == Init /\ [][NextOutputs]_vars

----------------------------------------------------------------------------
(* SpecQuickRecord: one caller of RecordingManager.quick_record, one         *)
(* statement of it per step; mgr.at is the statement it is at, "" once it   *)
(* has returned.                                                            *)

\* A recording is started, stopped, paused or resumed in OBS itself.
RemoteRecordingChanges ==
  \E f \in {"record", "paused"} :
    /\ Quiet
    /\ Flipped(remote, f) # remote
    /\ remote' = Flipped(remote, f)
    /\ UNCHANGED mgr
    /\ UNCHANGED default_output_dir
    /\ UnchangedEvents
    /\ UnchangedClient

\* quick_record is at statement at.
QuickAt(at) ==
  /\ evt.op = "none"
  /\ mgr.op = "recording.quick_record"
  /\ mgr.at = at

\* quick_record after a statement that made the requests of x, now at
\* statement at.
Stepped(x, at) ==
  [mgr EXCEPT !.at = at, !.log = mgr.log \o x.log, !.n = mgr.n + x.n,
              !.tape = mgr.tape \o SubSeq(x.tape, 1, x.n)]

\* return None
ReturnsNone(m) == [m EXCEPT !.kind = "return", !.value = "None"]

\* output_directory = output_directory or <cwd>/download
\* self.set_output_directory(output_directory)
Q_SetOutputDirectory ==
  /\ Quiet
  /\ \E dir \in DirArgs, fsOk \in BOOLEAN, tape \in Tapes(4, Fates) :
       LET directory == IF Given(dir) THEN dir ELSE DownloadDir
           d == SetOutputDirectory(Start(CallTable(Self), remote, remote,
                                         tape),
                                   default_output_dir, directory, fsOk)
       IN  /\ Canonical(d, tape)
           /\ mgr' = [NoManagerCall EXCEPT
                        !.op = "recording.quick_record", !.at = "start",
                        !.pre = remote, !.later = remote, !.dir = dir,
                        !.fsOk = fsOk, !.log = d.x.log, !.n = d.x.n,
                        !.tape = SubSeq(tape, 1, d.x.n)]
           /\ remote' = d.x.remote
           /\ default_output_dir' = d.dir
           /\ UnchangedEvents
           /\ UnchangedClient

\* quick_record after self.start() ended as o.
Started(o) ==
  IF AfterStart(o) = ""
  THEN ReturnsNone(Stepped(o.x, ""))
  ELSE [Stepped(o.x, AfterStart(o)) EXCEPT !.started = (o.kind = "return")]

\* if self.start():
Q_Start ==
  /\ QuickAt("start")
  /\ \E tape \in StartTapes :
       LET s == RecordingStart(Start(CallTable(Self), remote, remote, tape),
                               default_output_dir, NoDir, NoDir, mgr.fsOk)
       IN  /\ Canonical(s.o, tape)
           /\ mgr' = Started(s.o)
           /\ remote' = s.o.x.remote
           /\ default_output_dir' = s.dir
           /\ UnchangedEvents
           /\ UnchangedClient

\* What OBS may be when time.sleep(duration) is over.
SleepLaters == {remote} \cup {Flipped(remote, f) : f \in {"record", "paused"}}

\* time.sleep(duration), which returns or raises
Q_Sleep ==
  /\ QuickAt("sleep")
  /\ \E sleepOk \in BOOLEAN, later \in SleepLaters :
       /\ mgr' = [mgr EXCEPT !.at = IF sleepOk THEN "stop" ELSE "except",
                             !.sleepOk = sleepOk, !.later = later]
       /\ remote' = later
       /\ UNCHANGED default_output_dir
       /\ UnchangedEvents
       /\ UnchangedClient

\* quick_record after self.stop() ended as p.
Stopped(p) ==
  IF AfterStop(p) = ""
  THEN ReturnsNone(Stepped(p.x, ""))
  ELSE Stepped(p.x, AfterStop(p))

\* original_path = self.stop(); if original_path:
Q_Stop ==
  /\ QuickAt("stop")
  /\ \E tape \in Tapes(2, Fates) :
       LET p == RecordingStop(Start(CallTable(Self), remote, remote, tape))
       IN  /\ Canonical(p, tape)
           /\ mgr' = Stopped(p)
           /\ remote' = p.x.remote
           /\ UNCHANGED default_output_dir
           /\ UnchangedEvents
           /\ UnchangedClient

\* The comparison of the directories and the loop over
\* _move_file_to_directory, where the file is in the target directory or
\* not and the first moveFails moves fail.
Q_Move ==
  /\ QuickAt("move")
  /\ \E sameDir \in BOOLEAN, moveFails \in 0..MoveAttempts :
       /\ sameDir => moveFails = 0
       /\ LET l == MoveLoop(moveFails)
          IN  mgr' = [mgr EXCEPT
                        !.at = "", !.kind = "return", !.sameDir = sameDir,
                        !.moveFails = moveFails,
                        !.moves = IF sameDir THEN 0 ELSE l.moves,
                        !.value = IF sameDir THEN "outputPath" ELSE l.value]
       /\ UNCHANGED remote
       /\ UNCHANGED default_output_dir
       /\ UnchangedEvents
       /\ UnchangedClient

\* except Exception as e: ... return None
Q_Except ==
  /\ QuickAt("except")
  /\ \E tape \in Tapes(3, Fates) :
       LET x == QuickRecordFailed(Start(CallTable(Self), remote, remote, tape))
       IN  /\ Canonical([x |-> x], tape)
           /\ mgr' = ReturnsNone(Stepped(x, ""))
           /\ remote' = x.remote
           /\ UNCHANGED default_output_dir
           /\ UnchangedEvents
           /\ UnchangedClient

NextQuickRecord ==
  \/ CallerConnects
  \/ RemoteRecordingChanges
  \/ Q_SetOutputDirectory
  \/ Q_Start
  \/ Q_Sleep
  \/ Q_Stop
  \/ Q_Move
  \/ Q_Except
  \/ M_Return

SpecQuickRecord == Init /\ [][NextQuickRecord]_vars

----------------------------------------------------------------------------
(* Properties.                                                             *)

Attempts(e) == SelectSeq(e, LAMBDA x : x.t = "attempt")
Sleeps(e) == SelectSeq(e, LAMBDA x : x.t = "sleep")

\* The number of attempts the transport fails before its first answer.
LeadingFailures(script) ==
  IF \A i \in 1..Len(script) : ~script[i].ok THEN Len(script)
  ELSE (CHOOSE i \in 1..Len(script) :
          script[i].ok /\ \A j \in 1..(i - 1) : ~script[j].ok) - 1

RECURSIVE SumOfDelays(_)
SumOfDelays(e) == IF e = <<>> THEN 0 ELSE Head(e).a + SumOfDelays(Tail(e))

CallOps == {"call"} \cup HelperRequests

\* C1: call on a disconnected client raises OBSConnectionError at once: no
\* attempt on the transport and no backoff sleep, whatever max_retries is.
C1_DisconnectedCallFailsFast ==
  (last.op \in CallOps /\ ~last.preIsConnected) =>
     /\ res.kind = "raise"
     /\ res.exc = "OBSConnectionError"
     /\ Attempts(ev) = <<>>
     /\ Sleeps(ev) = <<>>

C1_Witness ==
  /\ last.op = "call"
  /\ ~last.preIsConnected
  /\ last.max_retries = MaxRetriesArg
  /\ res.exc = "OBSConnectionError"

\* C2: on a connected client, a transport that fails the first N attempts
\* (N <= max_retries) and answers attempt N + 1 makes call return that answer
\* after exactly N + 1 attempts and N sleeps, the first of 0.5 s and each
\* next one twice as long, a total of 0.5 s * (2^N - 1); the answered attempt
\* is the last thing call does.
C2_RetryThenSuccess ==
  (last.op = "call" /\ last.preIsConnected
     /\ LeadingFailures(last.script) <= last.max_retries) =>
     LET n == LeadingFailures(last.script)
         sl == Sleeps(ev)
     IN /\ res.kind = "return"
        /\ res.value = last.script[n + 1].resp
        /\ Len(Attempts(ev)) = n + 1
        /\ Len(sl) = n
        /\ Len(ev) = 2 * n + 1
        /\ \A k \in 1..n : ev[2 * k].t = "sleep"
        /\ ev[Len(ev)].t = "attempt"
        /\ n >= 1 => sl[1].a = 500
        /\ \A k \in 1..(n - 1) : sl[k + 1].a = 2 * sl[k].a
        /\ SumOfDelays(sl) = 500 * (Pow2(n) - 1)

C2_Witness ==
  /\ last.op = "call"
  /\ last.preIsConnected
  /\ last.max_retries = MaxRetriesArg
  /\ LeadingFailures(last.script) = MaxRetriesArg
  /\ res.kind = "return"
  /\ res.value = "bare"
  /\ Len(Sleeps(ev)) = MaxRetriesArg

\* C3: on a connected client, a transport that fails all max_retries + 1
\* attempts makes call attempt exactly max_retries + 1 times, sleep only
\* between attempts, and raise OBSRequestError with the last failure's
\* message; call raises nothing but OBSConnectionError and OBSRequestError.
C3_RetriesExhausted ==
  /\ (last.op = "call" /\ last.preIsConnected /\ last.max_retries >= 0
        /\ LeadingFailures(last.script) = last.max_retries + 1) =>
        /\ Len(Attempts(ev)) = last.max_retries + 1
        /\ Len(Sleeps(ev)) = last.max_retries
        /\ ev[Len(ev)].t = "attempt"
        /\ res.kind = "raise"
        /\ res.exc = "OBSRequestError"
        /\ res.msg = RequestFailPrefix \o last.script[last.max_retries + 1].err
  /\ (last.op \in CallOps /\ res.kind = "raise") =>
        res.exc \in {"OBSConnectionError", "OBSRequestError"}

C3_Witness ==
  /\ last.op = "call"
  /\ last.preIsConnected
  /\ last.max_retries = MaxRetriesArg
  /\ LeadingFailures(last.script) = MaxRetriesArg + 1
  /\ last.script[1].err # last.script[MaxRetriesArg + 1].err
  /\ res.exc = "OBSRequestError"

\* C4: a request issued through a helper of a client configured with
\* max_retries = m makes at most m + 1 transport attempts.
C4_ConfiguredRetryBound ==
  last.op \in HelperRequests =>
     Len(Attempts(ev)) <= config.max_retries + 1

OpenSessions == {h \in Handles : sess[h].st = "open"}

\* C5: connect on a connected client returns True and opens nothing, so the
\* client holds exactly one open session, opened exactly once, for as long
\* as it stays connected.
C5_ConnectIdempotent ==
  /\ (last.op = "connect" /\ last.preConnected) =>
        /\ res.kind = "return"
        /\ res.value = "True"
        /\ ev = <<>>
        /\ connected
        /\ ws = last.preWs
  /\ connected =>
        /\ ws # None
        /\ OpenSessions = {ws}
        /\ sess[ws].opens = 1

C5_Witness ==
  /\ last.op = "connect"
  /\ last.preConnected
  /\ res.value = "True"
  /\ sess[ws].opens = 1

\* The failure messages of ConnectErrors that mention "authentication
\* failed" in any letter case.
AuthMessages ==
  { <<"a","u","t","h","e","n","t","i","c","a","t","i","o","n"," ",
      "f","a","i","l","e","d">>,
    <<"A","u","t","h","e","n","t","i","c","a","t","i","o","n"," ",
      "F","a","i","l","e","d">>,
    <<"E","r","r",":"," ","A","U","T","H","E","N","T","I","C","A","T","I","O","N"," ",
      "F","A","I","L","E","D","!">> }

\* C6: when the session open fails inside connect, connect raises
\* OBSAuthenticationError if the failure mentions "authentication failed" in
\* any letter case and OBSConnectionError otherwise, returns nothing, and
\* is_connected() is false afterwards.
C6_ConnectFailureClassified ==
  (last.op = "connect" /\ ~last.preConnected /\ last.outcome # "ok") =>
     /\ res.kind = "raise"
     /\ res.value = ""
     /\ res.exc = IF last.err \in AuthMessages
                  THEN "OBSAuthenticationError" ELSE "OBSConnectionError"
     /\ res.msg = ConnectFailPrefix \o last.err
     /\ ~IsConnected(Self)
     /\ ~connected

C6_Witness ==
  /\ last.op = "connect"
  /\ last.outcome = "open_raises"
  /\ last.err # Lower(last.err)
  /\ res.exc = "OBSAuthenticationError"
  /\ ~IsConnected(Self)

\* C7: after disconnect returns, _connected is false and _ws is None, whether
\* or not the close raised; disconnect never raises; on a disconnected client
\* it closes nothing.
C7_DisconnectIsFinal ==
  last.op = "disconnect" =>
     /\ ~connected
     /\ ws = None
     /\ res.kind = "return"
     /\ ~last.preIsConnected => ev = <<>>

\* C8: between operations, _connected is true exactly when _ws is not None.
C8_ConnectedIffHandle == connected <=> (ws # None)

\* C9: leaving the with-statement, normally or by an exception of the body,
\* runs disconnect, leaves the client disconnected with no session open, and
\* lets the body's exception propagate.
C9_ScopeExitDisconnects ==
  last.op = "__exit__" =>
     /\ ev # <<>>
     /\ Head(ev) = E("disconnect", 0)
     /\ last.preIsConnected => ev[Len(ev)].a = last.preWs
     /\ ~IsConnected(Self)
     /\ ~connected
     /\ OpenSessions = {}
     /\ last.propagated = last.bodyExc
     /\ scope = "none"

C9_Witness ==
  /\ last.op = "__exit__"
  /\ last.kind = "OBSClient"
  /\ last.bodyExc = "BodyError"
  /\ last.preIsConnected
  /\ ~last.closeOk
  /\ last.propagated = "BodyError"
  /\ ~IsConnected(Self)

\* C10: with several threads in connect and disconnect, at most one thread is
\* inside either body, at most one session is open, and no session object is
\* opened twice or closed twice.
C10_LifecycleExclusive ==
  /\ \A t1, t2 \in Threads : (InBody(t1) /\ InBody(t2)) => t1 = t2
  /\ \A t \in Threads : InBody(t) => lock = t
  /\ Cardinality(OpenSessions) <= 1
  /\ \A h \in Handles : sess[h].opens <= 1 /\ sess[h].closes <= 1

C10_Witness ==
  \E t1, t2 \in Threads :
    /\ pc[t1] = "d_close"
    /\ pc[t2] = "c_lock"
    /\ \E h \in Handles : sess[h].st = "closed"
    /\ OpenSessions # {}

----------------------------------------------------------------------------
(* Properties of the listener registries (SpecEvents).                      *)

\* The listeners registered under event type t, in registration order.
ListenersOf(d, t) == IF t \in DOMAIN d THEN d[t] ELSE <<>>

\* C11: one run of the dispatcher for an event of type T calls every global
\* listener in registration order, then every listener registered under T in
\* registration order, and no other; a listener that raises stops neither
\* the listeners after it nor the dispatcher, and the registries are as
\* they were.
C11_DispatchOrder ==
  evt.op = "dispatch" =>
    LET expected == global_callbacks \o
                    ListenersOf(event_callbacks, evt.event_type)
    IN  /\ evt.kind = "return"
        /\ Len(evt.invoked) = Len(expected)
        /\ \A i \in 1..Len(expected) :
              /\ evt.invoked[i].cb = expected[i]
              /\ evt.invoked[i].raised = (expected[i] \in evt.raisers)
        /\ global_callbacks = evt.preGlobal
        /\ event_callbacks = evt.preEvent

\* Two global listeners of which the first raised, and a listener of the
\* event's type called after them.
C11_Witness ==
  /\ evt.op = "dispatch"
  /\ Len(global_callbacks) = 2
  /\ global_callbacks[1] # global_callbacks[2]
  /\ global_callbacks[1] \in evt.raisers
  /\ ListenersOf(event_callbacks, evt.event_type) # <<>>
  /\ Len(evt.invoked) = 3
  /\ evt.invoked[1].raised

\* The listener of the last unregister call was not registered in the scope
\* the call named.
WasNotRegistered ==
  IF evt.event_type = NoType
  THEN ~InList(evt.preGlobal, evt.callback)
  ELSE ~InList(ListenersOf(evt.preEvent, evt.event_type), evt.callback)

\* C12: unregistering a listener that is not registered in the named scope
\* returns normally and leaves both registries as they were.
C12_UnregisterUnknownIsNoOp ==
  (evt.op = "unregister" /\ WasNotRegistered) =>
    /\ evt.kind = "return"
    /\ global_callbacks = evt.preGlobal
    /\ event_callbacks = evt.preEvent

\* An unregister call for an event type that has other listeners only.
C12_Witness ==
  /\ evt.op = "unregister"
  /\ WasNotRegistered
  /\ evt.event_type \in DOMAIN evt.preEvent
  /\ evt.kind = "return"
  /\ evt.warned

\* C13: no event type of the per-type registry has an empty listener list.
C13_NoEmptyList ==
  \A t \in DOMAIN event_callbacks : event_callbacks[t] # <<>>

\* The only listener of an event type was unregistered and the type is gone.
C13_Witness ==
  /\ evt.op = "unregister"
  /\ ListenersOf(evt.preEvent, evt.event_type) = <<evt.callback>>
  /\ evt.event_type \notin DOMAIN event_callbacks

----------------------------------------------------------------------------
(* Properties of InputManager (SpecInputs, SpecInputIds).                   *)

\* The methods of InputManager that check the input's existence first.
InputGuarded ==
  {"is_muted", "mute", "unmute", "toggle_mute", "get_settings", "set_settings"}

\* The requests these methods exist to make.
InputOwnRequests ==
  {"GetInputMute", "SetInputMute", "ToggleInputMute", "GetInputSettings",
   "SetInputSettings"}

\* The types of the requests the last manager call dispatched.
Dispatched == {mgr.log[i].rq : i \in 1..Len(mgr.log)}

\* The first request of the last manager call was answered.
FirstAnswered == mgr.log # <<>> /\ mgr.tape[1] # "fail"

\* The name list the first request of the last manager call fetched.
FetchedInputs == IF mgr.tape[1] = "ok" THEN mgr.pre.inputs ELSE <<>>

\* C14: a method of InputManager that checks existence, called with a name
\* that is not in the input list L it fetched, raises
\* OBSResourceNotFoundError with that name and with L, and dispatches no
\* mute or settings request.
C14_InputNotFound ==
  (/\ mgr.op \in InputGuarded
   /\ FirstAnswered
   /\ ~InList(FetchedInputs, mgr.name)) =>
    /\ mgr.kind = "raise"
    /\ mgr.exc = "OBSResourceNotFoundError"
    /\ mgr.resource = mgr.name
    /\ mgr.available = FetchedInputs
    /\ Dispatched \cap InputOwnRequests = {}

----------------------------------------------------------------------------
(* Properties of SceneManager (SpecScenes).                                 *)

\* The methods of SceneManager that check the scene's existence first.
SceneGuarded ==
  {"switch_to", "set_preview", "delete", "rename",
   "get_scene_transition_override", "set_scene_transition_override"}

\* The scene list the first request of the last manager call fetched.
FetchedScenes == IF mgr.tape[1] = "ok" THEN mgr.pre.scenes ELSE <<>>

\* C15: a method of SceneManager that checks existence, called with a name
\* that is not in the scene list it fetched, raises OBSResourceNotFoundError
\* with that name and that list, and dispatches nothing but the fetch.
C15_SceneNotFound ==
  (/\ mgr.op \in SceneGuarded
   /\ FirstAnswered
   /\ ~InList(FetchedScenes, mgr.name)) =>
    /\ mgr.kind = "raise"
    /\ mgr.exc = "OBSResourceNotFoundError"
    /\ mgr.resource = mgr.name
    /\ mgr.available = FetchedScenes
    /\ Dispatched = {"GetSceneList"}
    /\ mgr.n = 1

\* delete("B") on an OBS instance whose scenes are ["A"] raised the error.
C15_Witness ==
  /\ mgr.op = "delete"
  /\ FirstAnswered
  /\ mgr.name = <<"B">>
  /\ FetchedScenes = <<<<"A">>>>
  /\ mgr.exc = "OBSResourceNotFoundError"
  /\ mgr.available = <<<<"A">>>>

\* C16: set_scene_transition_override with a transition_duration outside
\* 50..20000 raises ValueError and has dispatched no request; with a
\* duration inside the range, or None, it raises no ValueError.
C16_DurationValidatedFirst ==
  mgr.op = "set_scene_transition_override" =>
    IF mgr.duration # NoDuration /\
       (mgr.duration < MinDuration \/ mgr.duration > MaxDuration)
    THEN mgr.kind = "raise" /\ mgr.exc = "ValueError" /\ mgr.log = <<>>
    ELSE mgr.exc # "ValueError"

----------------------------------------------------------------------------
(* Properties of the output managers (SpecOutputs).                         *)

\* start() and stop() of the three managers: the output flag each asks for
\* and the request each exists to make.
OutputOps ==
  {[op |-> "recording.start", field |-> "record", rq |-> "StartRecord"],
   [op |-> "recording.stop", field |-> "record", rq |-> "StopRecord"],
   [op |-> "streaming.start", field |-> "stream", rq |-> "StartStream"],
   [op |-> "streaming.stop", field |-> "stream", rq |-> "StopStream"],
   [op |-> "virtual_camera.start", field |-> "vcam", rq |-> "StartVirtualCam"],
   [op |-> "virtual_camera.stop", field |-> "vcam", rq |-> "StopVirtualCam"]}

StartOps == {"recording.start", "streaming.start", "virtual_camera.start"}

\* The status the first request of the last manager call fetched says that
\* the output of flag f is active.
ReportedActive(f) == FirstAnswered /\ mgr.tape[1] = "ok" /\ mgr.pre[f]

\* The status was fetched and does not say that the output is active.
ReportedInactive(f) == FirstAnswered /\ ~ReportedActive(f)

\* C17: start() of an output whose status reports it active raises
\* OBSOutputRunningError and dispatches no Start request; stop() of an
\* output whose status reports it inactive raises OBSOutputNotRunningError
\* and dispatches no Stop request.
C17_OutputGuards ==
  \A p \in OutputOps :
    mgr.op = p.op =>
      IF p.op \in StartOps
      THEN ReportedActive(p.field) =>
             /\ mgr.kind = "raise"
             /\ mgr.exc = "OBSOutputRunningError"
             /\ p.rq \notin Dispatched
             /\ mgr.n = 1
      ELSE ReportedInactive(p.field) =>
             /\ mgr.kind = "raise"
             /\ mgr.exc = "OBSOutputNotRunningError"
             /\ p.rq \notin Dispatched
             /\ mgr.n = 1

\* RecordingManager.start on a running recording raised the error after the
\* status request only.
C17_Witness ==
  /\ mgr.op = "recording.start"
  /\ ReportedActive("record")
  /\ mgr.exc = "OBSOutputRunningError"
  /\ Dispatched = {"GetRecordStatus"}

\* C18 as claimed: pause() on an inactive recording raises
\* OBSOutputNotRunningError and dispatches no PauseRecord request.
C18_PauseInactiveRaises ==
  (mgr.op = "recording.pause" /\ ReportedInactive("record")) =>
    /\ mgr.kind = "raise"
    /\ mgr.exc = "OBSOutputNotRunningError"
    /\ "PauseRecord" \notin Dispatched

\* C18 amended: pause() on an inactive recording returns False, raises
\* nothing and dispatches nothing but the status request.
C18_PauseInactiveReturnsFalse ==
  (mgr.op = "recording.pause" /\ ReportedInactive("record")) =>
    /\ mgr.kind = "return"
    /\ mgr.value = "False"
    /\ Dispatched = {"GetRecordStatus"}
    /\ mgr.n = 1

\* pause() on a recording that the status reports inactive has returned.
C18_Witness ==
  /\ mgr.op = "recording.pause"
  /\ ReportedInactive("record")
  /\ mgr.tape[1] = "ok"
  /\ mgr.kind = "return"
  /\ mgr.value = "False"

----------------------------------------------------------------------------
(* Properties of argument validation (SpecScenes, SpecInputIds).            *)

\* The manager methods that address a resource by the name they are given.
NameAddressed == SceneGuarded \cup InputGuarded \cup {"create_input"}

\* C19: a manager method that addresses a resource by name, called with the
\* empty name, raises a parameter error (ValueError) and has dispatched no
\* request.
C19_EmptyNameFailsFast ==
  (mgr.op \in NameAddressed /\ mgr.name = <<>>) =>
    /\ mgr.kind = "raise"
    /\ mgr.exc = "ValueError"
    /\ mgr.log = <<>>

\* The two mutually exclusive identifiers of the last manager call.
Identifiers ==
  IF mgr.op = "create_input" THEN <<mgr.name2, mgr.uuid>>
  ELSE <<mgr.name, mgr.uuid>>

\* C20: create_input, remove_input and rename_input, given both or neither
\* of their two mutually exclusive identifiers, raise ValueError and have
\* dispatched no request.
C20_ExclusiveIdentifiers ==
  (/\ mgr.op \in {"create_input", "remove_input", "rename_input"}
   /\ (Identifiers[1] = NoName) = (Identifiers[2] = NoName)) =>
    /\ mgr.kind = "raise"
    /\ mgr.exc = "ValueError"
    /\ mgr.log = <<>>
    /\ mgr.n = 0

\* remove_input with a name and a uuid on a connected client raised
\* ValueError without a request.
C20_Witness ==
  /\ mgr.op = "remove_input"
  /\ mgr.name = <<"A">>
  /\ mgr.uuid = <<"u">>
  /\ IsConnected(Self)
  /\ mgr.exc = "ValueError"
  /\ mgr.log = <<>>

----------------------------------------------------------------------------
(* Properties of creation (SpecLifecycle).                                  *)

\* The first request of the last manager call fetched the input list.
FetchedInputList == FirstAnswered /\ mgr.log[1].rq = "GetInputList"

\* C21: creating a resource whose name is in the name list the call fetched
\* is refused and the create request is not dispatched: create and
\* create_source return False, create_input with check_duplicates raises
\* ValueError.
C21_DuplicateRefused ==
  /\ (mgr.op = "create" /\ FirstAnswered /\ InList(FetchedScenes, mgr.name)) =>
       /\ mgr.kind = "return"
       /\ mgr.value = "False"
       /\ "CreateScene" \notin Dispatched
  /\ (/\ mgr.op = "create_source"
      /\ FirstAnswered
      /\ InList(FetchedInputs, mgr.name)) =>
       /\ mgr.kind = "return"
       /\ mgr.value = "False"
       /\ "CreateInput" \notin Dispatched
  /\ (/\ mgr.op = "create_input"
      /\ mgr.check
      /\ FetchedInputList
      /\ InList(FetchedInputs, mgr.name)) =>
       /\ mgr.kind = "raise"
       /\ mgr.exc = "ValueError"
       /\ "CreateInput" \notin Dispatched

\* create_input("A", check_duplicates=True) on an OBS instance that has the
\* input "A" raised ValueError after the fetch of the list only.
C21_Witness ==
  /\ mgr.op = "create_input"
  /\ mgr.check
  /\ mgr.name = <<"A">>
  /\ FetchedInputList
  /\ InList(FetchedInputs, <<"A">>)
  /\ mgr.exc = "ValueError"
  /\ Dispatched = {"GetInputList"}

\* The string the payload of the last manager call has for a key, the empty
\* string if it has none.
PayloadString(key) ==
  IF \E p \in mgr.payload : p[1] = key /\ p[2] # NoName
  THEN (CHOOSE p \in mgr.payload : p[1] = key)[2]
  ELSE <<>>

\* C24: get_special_inputs returns, when the response has a payload, a
\* mapping of exactly the keys desktop1, desktop2, mic1, mic2, mic3, mic4 to
\* the payload's string for the key, or to the empty string where the key is
\* missing or None; it returns the empty mapping when the response has no
\* payload or the request raises.
C24_SpecialInputs ==
  mgr.op = "get_special_inputs" =>
    /\ mgr.kind = "return"
    /\ IF FirstAnswered /\ mgr.tape[1] = "ok"
       THEN mgr.mapping = {<<key, PayloadString(key)>> : key \in SpecialKeys}
       ELSE mgr.mapping = {}

\* A payload in which desktop1 is None, desktop2 is missing and mic1 is named
\* gave a mapping of six keys.
C24_Witness ==
  /\ mgr.op = "get_special_inputs"
  /\ <<"desktop1", NoName>> \in mgr.payload
  /\ <<"mic1", <<"A">>>> \in mgr.payload
  /\ <<"inputs", <<"A">>>> \in mgr.payload
  /\ <<"desktop1", <<>>>> \in mgr.mapping
  /\ <<"desktop2", <<>>>> \in mgr.mapping
  /\ <<"mic1", <<"A">>>> \in mgr.mapping
  /\ Cardinality(mgr.mapping) = 6

\* The last request of the last manager call was dispatched and failed
\* because OBS does not know the input.
RemoteSaysNotFound ==
  /\ mgr.n >= 1
  /\ Len(mgr.log) = mgr.n
  /\ mgr.tape[mgr.n] = "notfound"

\* C22: remove_input and rename_input raise OBSResourceNotFoundError when
\* their request fails with a message that contains "input" and
\* "not found".
C22_RemoteNotFoundIsTyped ==
  (mgr.op \in {"remove_input", "rename_input"} /\ RemoteSaysNotFound) =>
    /\ mgr.kind = "raise"
    /\ mgr.exc = "OBSResourceNotFoundError"

----------------------------------------------------------------------------
(* Properties of error propagation (SpecScenes, SpecInputs, SpecOutputs).   *)

\* The subclasses of OBSError.
TypedErrors ==
  {"OBSConnectionError", "OBSAuthenticationError", "OBSRequestError",
   "OBSResourceNotFoundError", "OBSNotReadyError", "OBSOutputRunningError",
   "OBSOutputNotRunningError"}

\* self.client.call raised inside the last manager call: a request was not
\* dispatched because the client is not connected, or a request failed
\* every attempt.
CallRaised ==
  /\ mgr.n >= 1
  /\ \/ Len(mgr.log) < mgr.n
     \/ \E i \in 1..mgr.n : mgr.tape[i] \in {"fail", "notfound"}

\* C23: a manager method inside which client.call raises OBSRequestError or
\* OBSConnectionError raises a typed OBS error to its caller and does not
\* return a value.
C23_FailureSurfaced ==
  (/\ mgr.op \in SceneGuarded \cup InputGuarded \cup StartOps
   /\ CallRaised) =>
    /\ mgr.kind = "raise"
    /\ mgr.exc \in TypedErrors

----------------------------------------------------------------------------
(* Properties of the dispatcher on the session (SpecEvents).                *)

\* The triggers under which the dispatcher is registered on session h.
TriggersOn(h) == {functions[h][i] : i \in 1..Len(functions[h])}

\* Events of type t on session h reach the dispatcher.
Delivered(h, t) == AnyEvent \in TriggersOn(h) \/ t \in TriggersOn(h)

\* Every scope that has a listener has the dispatcher on the current
\* session: every event if there is a global listener, and each event type
\* known to the transport that has a listener.
Covered ==
  /\ global_callbacks # <<>> => AnyEvent \in TriggersOn(ws)
  /\ \A t \in DOMAIN event_callbacks \cap KnownEventTypes : Delivered(ws, t)

\* C25: while the client is connected, every scope that has a listener has
\* the dispatcher registered on the current session.  The steps that could
\* break it: connect() leaves the scopes of the listeners registered before
\* it covered, and a registration the transport accepts on a connected
\* client keeps the scopes covered.
C25_DispatcherRegistered ==
  [][/\ (~connected /\ connected') => Covered'
     /\ (/\ connected
         /\ Covered
         /\ evt'.op = "register"
         /\ evt'.registerOk) => Covered']_vars

\* C26: one inbound message leads to at most one run of the dispatcher, so
\* that no more listeners are called than the two registries hold for the
\* message.
C26_OneRunPerEvent ==
  evt.op = "inbound" =>
    /\ evt.runs <= 1
    /\ Len(evt.invoked) <=
         Len(global_callbacks) + Len(ListenersOf(event_callbacks, evt.event_type))

----------------------------------------------------------------------------
(* Properties of a dispatch during which listeners are unregistered         *)
(* (SpecDispatch).                                                          *)

\* The listeners the loop over the list of a scope has called.
CalledIn(sc) ==
  {evt.invoked[k].cb : k \in {j \in 1..Len(evt.invoked) :
                                evt.invoked[j].scope = sc}}

\* C27: when a dispatch during which listeners were unregistered ends, every
\* listener that is still registered globally or under the type of the
\* event has been called by the loop of its scope.
C27_NoListenerSkipped ==
  evt.op = "dispatched" =>
    /\ \A k \in 1..Len(global_callbacks) :
         global_callbacks[k] \in CalledIn(NoType)
    /\ \A k \in 1..Len(ListenersOf(event_callbacks, evt.event_type)) :
         ListenersOf(event_callbacks, evt.event_type)[k]
           \in CalledIn(evt.event_type)

----------------------------------------------------------------------------
(* Properties of call() racing with disconnect() (SpecCallRace).            *)

\* A thread inside call() takes a step from label l.
CallStepFrom(l) == \E t \in Threads : pc[t] = l /\ pc'[t] # l

\* C28: once the client is disconnected, a call() that is under way sleeps
\* no further backoff, and at its next iteration it makes no transport
\* attempt and ends with OBSConnectionError, not with the OBSRequestError
\* of exhausted retries.
C28_CallStopsOnDisconnect ==
  [][~IsConnected(Self) =>
       /\ ~CallStepFrom("k_sleep")
       /\ CallStepFrom("k_try") =>
            /\ Len(ev') > Len(ev) => ev'[Len(ev')].t # "attempt"
            /\ res'.kind = "raise"
            /\ res'.exc = "OBSConnectionError"]_vars

----------------------------------------------------------------------------
(* Properties of the list attached to the not-found error (SpecInputs,      *)
(* SpecLifecycle).                                                          *)

\* C29: when a method of InputManager or SourceManager raises
\* OBSResourceNotFoundError from the existence check it begins with, the
\* list attached to the error is the list the check was made against, and
\* the requested name is not in it, whatever OBS does between the requests.
C29_AvailableIsCheckedList ==
  (/\ mgr.op \in InputGuarded \cup {"delete_source"}
   /\ mgr.exc = "OBSResourceNotFoundError"
   /\ mgr.n = 2
   /\ Len(mgr.log) = 2) =>
    /\ mgr.available = FetchedInputs
    /\ ~InList(mgr.available, mgr.name)

----------------------------------------------------------------------------
(* Properties of quick_record (SpecQuickRecord).                            *)

\* The StartRecord request of the last manager call was answered.
\* self.start() of the quick_record under way returned True.
StartRecordSucceeded == mgr.started

\* C30: when quick_record returns after its StartRecord request succeeded,
\* the recording output is inactive, whatever became of the stop, the wait
\* and the file move; and _move_file_to_directory was called at most 3
\* times.
C30_QuickRecordStops ==
  (mgr.op = "recording.quick_record" /\ mgr.at = "") =>
    /\ StartRecordSucceeded => ~remote.record
    /\ mgr.moves <= MoveAttempts

====
